---- MODULE Spec2Model ----
(***************************************************************************)
(* Workflow execution engine of the Vue workflow editor:                   *)
(*   - the topological scheduler  (getExecutionOrder),                     *)
(*   - the run assembly           (executeWorkflowNow),                    *)
(*   - the trigger controller     (runWorkflow, runScheduled, the timers,  *)
(*                                 clearSchedule / abortExecution),        *)
(*   - the execution recorder     (stores/executionLog.ts).                *)
(*   - the action dispatcher      (executeNode),                           *)
(*   - the import of a workflow   (isValidNodeData, handleImport).         *)
(*                                                                         *)
(* One step of the model is one macrotask of the browser's event loop: a   *)
(* handler together with the microtasks it leaves behind.  An await of an  *)
(* action that finishes without real I/O (triggers, computation, run code) *)
(* resumes in a microtask, so no timer or click can run in between; an     *)
(* await of an API call suspends the run until the response arrives.       *)
(***************************************************************************)
EXTENDS Integers, Sequences, FiniteSets, TLC

VARIABLES
  nodes,              \* workflowStore.nodes : sequence of node records
  edges,              \* workflowStore.edges : sequence of [source, target]
  lastOrder,          \* return value of a direct call of getExecutionOrder
  dispatched,         \* request and return value of a direct call of executeNode
  exported,           \* the file that exportWorkflow downloaded last, and its graph
  computed,           \* arguments and return value of a direct call of a helper
  singles,            \* every onNodeExecute() activation for a node of the canvas
  execution,          \* executionLogStore.execution (NoExecution = null)
  selectedEntryId,    \* executionLogStore.selectedEntryId (NoEntry = null)
  notification,       \* executionLogStore.notification
  scheduleTimerId,    \* handle of the repeating timer, 0 = null
  scheduleTimeoutId,  \* handle of the one-shot timer, 0 = null
  isScheduleActive,   \* the trigger-armed boolean
  timers,             \* timers armed in the event loop (setInterval/setTimeout)
  nextTimerId,        \* next handle the event loop hands out
  isExecuting,        \* the isExecuting flag of every runScheduled closure
  calls,              \* number of runWorkflow() calls so far
  runs,               \* every executeWorkflowNow() activation that got past its guard
  event               \* the handler that ran last

vars == << nodes, edges, lastOrder, dispatched, exported, computed, singles, execution, selectedEntryId, notification,
           scheduleTimerId, scheduleTimeoutId, isScheduleActive, timers,
           nextTimerId, isExecuting, calls, runs, event >>

graphVars == << nodes, edges >>
recorderVars == << execution, selectedEntryId, notification >>
controllerVars == << scheduleTimerId, scheduleTimeoutId, isScheduleActive,
                     timers, nextTimerId, isExecuting >>

----------------------------------------------------------------------------
(* Bounds of the model *)

MaxNodes == 3
MaxEdges == 2

(* nodeActionType *)
MANUAL_TRIGGER == "manual_trigger"
SCHEDULE_TRIGGER == "schedule_trigger"
API_CALL == "api_call"
COMPUTATION == "computation"
RUN_CODE == "run_code"

----------------------------------------------------------------------------
(* Helpers on sequences *)

Range(s) == {s[i] : i \in DOMAIN s}

SeqsUpTo(S, n) == UNION {[1..k -> S] : k \in 0..n}

IsInjective(s) == \A i, j \in DOMAIN s : s[i] = s[j] => i = j

\* position of the first element equal to x (0 when absent)
IndexOf(s, x) ==
  IF \E i \in DOMAIN s : s[i] = x
    THEN CHOOSE i \in DOMAIN s : s[i] = x /\ \A j \in 1..(i-1) : s[j] # x
    ELSE 0

----------------------------------------------------------------------------
(* Graph model *)

NodeIdsOf(ns) == {ns[i].id : i \in DOMAIN ns}

\* userInput of a node; only the Schedule Trigger fields are read by the engine.
\* TIME_TO_TRIGGER "HH:MM" is kept as the pair <<HH, MM>>.
MkInput(triggerOn, between, time) ==
  [TRIGGER_ON |-> triggerOn, INTERVAL_BETWEEN_TRIGGER |-> between,
   TIME_TO_TRIGGER |-> time]

DefaultInput == MkInput("min", 1, <<0, 0>>)

\* userInput of an API Call node as buildUserInput makes it from the defaults
\* (METHOD is GET, so BODY is left out)
ApiInput == [URL |-> "https://api.example.com", HEADERS |-> "", METHOD |-> "GET"]

\* throws: the node's script / expression raises when it is evaluated;
\* thrown: String(error) of what it raises
MkNode(id, label, isTrigger, actionType, muted, userInput) ==
  [id |-> id, label |-> label, position |-> <<0, 0>>, isTrigger |-> isTrigger,
   actionType |-> actionType, muted |-> muted, throws |-> FALSE, thrown |-> "",
   userInput |-> userInput]

\* the node moved to position <<x, y>> of the canvas
At(n, pos) == [n EXCEPT !.position = pos]

\* the node with a script / expression that raises
Throwing(n, message) == [n EXCEPT !.throws = TRUE, !.thrown = message]

MkEdge(s, t) == [source |-> s, target |-> t]

----------------------------------------------------------------------------
(* Topological scheduler: getExecutionOrder *)

\* (mutant) an edge is used when its target is in byId
ValidEdgesOfKnownTarget(ns, es) ==
  SelectSeq(es, LAMBDA e : e.target \in NodeIdsOf(ns))

\* edges.forEach: an edge is used only when both ends are in byId
ValidEdges(ns, es) ==
  SelectSeq(es, LAMBDA e : e.source \in NodeIdsOf(ns) /\ e.target \in NodeIdsOf(ns))

\* targetsBySource.get(id) ?? [] : targets of the valid edges out of id, in edge order
TargetsBySource(ns, es, id) ==
  LET out == SelectSeq(ValidEdges(ns, es), LAMBDA e : e.source = id)
  IN  [i \in DOMAIN out |-> out[i].target]

\* (mutant) self-loops are not counted
InDegreeNoSelfLoops(ns, es) ==
  LET ve == ValidEdges(ns, es)
  IN  [id \in NodeIdsOf(ns) |->
         Cardinality({i \in DOMAIN ve : ve[i].target = id /\ ve[i].source # id})]

\* inDegree after the edges.forEach
InDegree(ns, es) ==
  LET ve == ValidEdges(ns, es)
  IN  [id \in NodeIdsOf(ns) |-> Cardinality({i \in DOMAIN ve : ve[i].target = id})]

\* nodes.filter(inDegree = 0).map(id)
SeedQueue(ns, es) ==
  LET zero == SelectSeq(ns, LAMBDA n : InDegree(ns, es)[n.id] = 0)
  IN  [i \in DOMAIN zero |-> zero[i].id]

\* (mutant) the successor is put at the front: a stack instead of a queue
EnqueueFront(queue, tid) == <<tid>> \o queue

\* queue.push(tid): a successor goes to the BACK of the queue
Enqueue(queue, tid) == Append(queue, tid)

\* (mutant) every successor is enqueued at once, whatever its in-degree
RECURSIVE RelaxEager(_, _, _)
RelaxEager(tids, inDeg, queue) ==
  IF tids = << >>
    THEN [inDegree |-> inDeg, queue |-> queue]
    ELSE RelaxEager(Tail(tids), [inDeg EXCEPT ![Head(tids)] = @ - 1],
                    Append(queue, Head(tids)))

\* the forEach over the successors of the popped node
RECURSIVE Relax(_, _, _)
Relax(tids, inDeg, queue) ==
  IF tids = << >>
    THEN [inDegree |-> inDeg, queue |-> queue]
    ELSE LET tid == Head(tids)
             d   == inDeg[tid] - 1
         IN  Relax(Tail(tids), [inDeg EXCEPT ![tid] = d],
                   IF d = 0 THEN Enqueue(queue, tid) ELSE queue)

\* the while (queue.length > 0) loop
RECURSIVE Drain(_, _, _, _, _)
Drain(ns, es, queue, inDeg, order) ==
  IF queue = << >>
    THEN order
    ELSE LET id == Head(queue)
             r  == Relax(TargetsBySource(ns, es, id), inDeg, Tail(queue))
         IN  Drain(ns, es, r.queue, r.inDegree, Append(order, id))

getExecutionOrder(ns, es) ==
  IF Len(ns) = 0
    THEN << >>
    ELSE Drain(ns, es, SeedQueue(ns, es), InDegree(ns, es), << >>)

----------------------------------------------------------------------------
(* A direct call of the scheduler on a graph drawn from the bounded set *)

NodeIds == 1..MaxNodes

\* node lists with unique ids, in any list order; node 1 is the trigger
\* node, the other nodes are action nodes
NodeLists ==
  {[i \in DOMAIN ids |->
      IF ids[i] = 1
        THEN MkNode(1, "Manual Trigger", TRUE, MANUAL_TRIGGER, FALSE, DefaultInput)
        ELSE MkNode(ids[i], "Node", FALSE, COMPUTATION, FALSE, DefaultInput)] :
     ids \in {s \in SeqsUpTo(NodeIds, MaxNodes) : IsInjective(s)}}

\* edge lists between any two ids, known to the node list or not
EdgeLists == SeqsUpTo({MkEdge(s, t) : s \in NodeIds, t \in NodeIds}, MaxEdges)

NotCalled == [called |-> FALSE, order |-> << >>]

NotDispatched == [called |-> FALSE]
NotExported == [called |-> FALSE]
NotComputed == [called |-> FALSE]

----------------------------------------------------------------------------
(* Schedule arithmetic (services/nodeService.ts) *)

DayMs == 86400000
ImmediateMs == 1000

\* An interval in milliseconds is a JavaScript number, exact far beyond the 32
\* bits of the integers here (a month is 2592000000 ms): it is kept as whole
\* seconds and the milliseconds left over, s * 1000 + ms.
Millis(s, ms) == [s |-> s, ms |-> ms]

\* k times the interval
Times(k, interval) ==
  LET p == k * interval.ms
  IN  Millis(k * interval.s + p \div 1000, p % 1000)

UnitMs(triggerOn) ==
  CASE triggerOn = "sec"   -> Millis(1, 0)
    [] triggerOn = "min"   -> Millis(60, 0)
    [] triggerOn = "hour"  -> Millis(60 * 60, 0)
    [] triggerOn = "day"   -> Millis(24 * 60 * 60, 0)
    [] triggerOn = "week"  -> Millis(7 * 24 * 60 * 60, 0)
    [] triggerOn = "month" -> Millis(30 * 24 * 60 * 60, 0)
    [] OTHER               -> Millis(60, 0)

\* (mutant) the multiplier is left out
getScheduleIntervalMsOfUnit(triggerOn, between) == UnitMs(triggerOn)

getScheduleIntervalMs(triggerOn, between) ==
  Times(IF between > 1 THEN between ELSE 1, UnitMs(triggerOn))

\* Local time. change: the hours that the clocks are set back today at 02:00
\* (1 on the day daylight saving time ends, -1 on the day it begins, 0 on
\* every other day); the local day is 24 + change hours long.
HourMs == 3600000
MinuteMs == 60000
ClockChangeAt == 2 * HourMs

\* wall-clock reading of time = <<HH, MM>>, in milliseconds after 00:00
WallClock(time) == time[1] * HourMs + time[2] * MinuteMs

\* target.setHours(h, m, 0, 0): the milliseconds from today's local midnight
\* to the instant with that wall-clock reading (a reading that the clocks
\* skip is taken with the offset from before the change)
SetHours(change, time) ==
  LET wall == WallClock(time)
  IN  IF wall < ClockChangeAt THEN wall
      ELSE IF change = -1 /\ wall < ClockChangeAt + HourMs THEN wall
      ELSE wall + change * HourMs

\* now: milliseconds since today's local midnight; time = <<HH, MM>>
msUntilTimeOn(change, time, now) ==
  LET ms == SetHours(change, time) - now
  IN  IF ms < 0 THEN ms + DayMs ELSE ms

\* msUntilTime on a day without a clock change
msUntilTime(time, now) == msUntilTimeOn(0, time, now)

----------------------------------------------------------------------------
(* The mutable state a handler works on, as one record; a handler is an    *)
(* operator from this record to this record, in the order of its code.     *)

NoExecution == [none |-> TRUE]
NoEntry == << >>
NoNotification == [type |-> "none", message |-> ""]

World ==
  [nodes |-> nodes, edges |-> edges,
   execution |-> execution, selectedEntryId |-> selectedEntryId,
   notification |-> notification,
   scheduleTimerId |-> scheduleTimerId, scheduleTimeoutId |-> scheduleTimeoutId,
   isScheduleActive |-> isScheduleActive, timers |-> timers,
   nextTimerId |-> nextTimerId, isExecuting |-> isExecuting, runs |-> runs]

Commit(w) ==
  /\ nodes' = w.nodes
  /\ edges' = w.edges
  /\ execution' = w.execution
  /\ selectedEntryId' = w.selectedEntryId
  /\ notification' = w.notification
  /\ scheduleTimerId' = w.scheduleTimerId
  /\ scheduleTimeoutId' = w.scheduleTimeoutId
  /\ isScheduleActive' = w.isScheduleActive
  /\ timers' = w.timers
  /\ nextTimerId' = w.nextTimerId
  /\ isExecuting' = w.isExecuting
  /\ runs' = w.runs

----------------------------------------------------------------------------
(* Execution recorder (stores/executionLog.ts) *)

\* (mutant) only the selection is reset, the execution stays
clearSelectionOnly(w) == [w EXCEPT !.selectedEntryId = NoEntry]

clearExecution(w) ==
  [w EXCEPT !.execution = NoExecution, !.selectedEntryId = NoEntry]

\* (mutant) the selection is left as it was
setExecutionKeepSelection(w, value) == [w EXCEPT !.execution = value]

setExecution(w, value) ==
  [w EXCEPT !.execution = value,
            !.selectedEntryId = IF Len(value.entries) > 0
                                  THEN value.entries[1].id ELSE NoEntry]

setNotification(w, type, message) ==
  [w EXCEPT !.notification = [type |-> type, message |-> message]]

clearNotification(w) == [w EXCEPT !.notification = NoNotification]

setSelectedEntryId(w, id) == [w EXCEPT !.selectedEntryId = id]

\* (mutant) the accessor answers from the id alone, without looking the entry
\* up in the execution
selectedEntryOfId(exec, id) ==
  IF id = NoEntry THEN NoEntry ELSE [id |-> id]

\* the selectedEntry accessor: execution?.entries.find(e => e.id ===
\* selectedEntryId) ?? null, NoEntry standing for null
selectedEntry(exec, id) ==
  IF exec = NoExecution \/ \A k \in DOMAIN exec.entries : exec.entries[k].id # id
    THEN NoEntry
    ELSE exec.entries[CHOOSE k \in DOMAIN exec.entries :
                        /\ exec.entries[k].id = id
                        /\ \A j \in 1..(k - 1) : exec.entries[j].id # id]

----------------------------------------------------------------------------
(* Timers of the event loop and the controller's handles *)

\* clearInterval(id) / clearTimeout(id): the timer with that handle is disarmed
ClearTimer(ts, id) == {t \in ts : t.id # id}

\* (mutant) the pending one-shot is forgotten
clearScheduleIntervalOnly(w) ==
  LET w1 == IF w.scheduleTimerId # 0
              THEN [w EXCEPT !.timers = ClearTimer(@, w.scheduleTimerId),
                             !.scheduleTimerId = 0]
              ELSE w
  IN  [w1 EXCEPT !.isScheduleActive = FALSE]

clearSchedule(w) ==
  LET w1 == IF w.scheduleTimerId # 0
              THEN [w EXCEPT !.timers = ClearTimer(@, w.scheduleTimerId),
                             !.scheduleTimerId = 0]
              ELSE w
      w2 == IF w1.scheduleTimeoutId # 0
              THEN [w1 EXCEPT !.timers = ClearTimer(@, w1.scheduleTimeoutId),
                              !.scheduleTimeoutId = 0]
              ELSE w1
  IN  [w2 EXCEPT !.isScheduleActive = FALSE]

\* (mutant) the handle that setInterval returns is not kept
ArmIntervalNoHandle(w, c, intervalMs) ==
  [w EXCEPT !.timers = @ \cup {[id |-> w.nextTimerId, kind |-> "interval",
                                closure |-> c, ms |-> intervalMs,
                                intervalMs |-> intervalMs]},
            !.nextTimerId = @ + 1]

\* scheduleTimerId = setInterval(runScheduled, intervalMs), runScheduled of closure c
ArmInterval(w, c, intervalMs) ==
  [w EXCEPT !.timers = @ \cup {[id |-> w.nextTimerId, kind |-> "interval",
                                closure |-> c, ms |-> intervalMs,
                                intervalMs |-> intervalMs]},
            !.scheduleTimerId = w.nextTimerId,
            !.nextTimerId = @ + 1]

\* scheduleTimeoutId = setTimeout(<callback of closure c>, firstRunMs)
ArmTimeout(w, c, firstRunMs, intervalMs) ==
  [w EXCEPT !.timers = @ \cup {[id |-> w.nextTimerId, kind |-> "timeout",
                                closure |-> c, ms |-> firstRunMs,
                                intervalMs |-> intervalMs]},
            !.scheduleTimeoutId = w.nextTimerId,
            !.nextTimerId = @ + 1]

----------------------------------------------------------------------------
(* Action dispatcher: executeNode.  net is the outcome of the request of   *)
(* an API call ("ok" or "fail"); the other kinds do not use it.            *)

Output(tag, val) == [tag |-> tag, val |-> val]

\* what a script raises when String() cannot convert it (an object without
\* toString and valueOf, such as Object.create(null))
Unprintable == "<no primitive value>"

\* the catch block of executeNode: return {output: {error: String(error)},
\* status: 'error'}; String(error) itself throws a TypeError for a value that
\* has no string conversion, and that exception leaves executeNode
Caught(thrown) ==
  IF thrown = Unprintable
    THEN [output |-> Output("uncaught", "TypeError: Cannot convert object to primitive value"),
          status |-> "uncaught"]
    ELSE [output |-> Output("error", thrown), status |-> "error"]

\* userInput[key] ?? default
Get(ui, key, default) == IF key \in DOMAIN ui THEN ui[key] ELSE default

\* headersRaw ? JSON.parse(headersRaw) : {}, and {} when JSON.parse throws;
\* the object is kept as a set of <<name, value>> pairs
ParseHeaders(headersRaw) ==
  CASE headersRaw = "{\"X\":\"1\"}" -> {<<"X", "1">>}
    [] headersRaw = "{}" -> {}
    [] OTHER -> {}

\* the arguments of the fetch(...) expression that executeNode builds from
\* userInput (no node of the editor carries a data['api_call'] expression);
\* body: bodyRaw ? JSON.stringify(bodyRaw) : undefined
ApiRequest(n) ==
  LET url      == Get(n.userInput, "URL", "")
      method   == Get(n.userInput, "METHOD", "GET")
      bodyRaw  == Get(n.userInput, "BODY", "")
  IN  [url |-> url, method |-> method,
       headers |-> ParseHeaders(Get(n.userInput, "HEADERS", "")),
       hasBody |-> bodyRaw # "",
       body |-> bodyRaw]

\* generateExecutableCode(actionType, userInput): the text stored as the
\* node's executableCode; for an API call, the fetch(...) expression, kept as
\* its arguments like ApiRequest
generateExecutableCode(actionType, userInput) ==
  CASE actionType = RUN_CODE -> Get(userInput, "JAVASCRIPT_CODE", "")
    [] actionType = API_CALL ->
         LET method  == Get(userInput, "METHOD", "GET")
             bodyRaw == Get(userInput, "BODY", "")
         IN  IF method = "GET"
               THEN [url |-> Get(userInput, "URL", ""), method |-> method,
                     headers |-> ParseHeaders(Get(userInput, "HEADERS", "")),
                     hasBody |-> FALSE, body |-> ""]
               ELSE [url |-> Get(userInput, "URL", ""), method |-> method,
                     headers |-> ParseHeaders(Get(userInput, "HEADERS", "")),
                     hasBody |-> bodyRaw # "", body |-> bodyRaw]
    [] actionType = COMPUTATION -> Get(userInput, "EXPRESSION_CODE", "")
    [] OTHER -> ""

\* fetch(): the Request constructor throws a TypeError for a GET or HEAD
\* request with a body, so the promise is rejected at once
RequestAccepted(req) == ~(req.method \in {"GET", "HEAD"} /\ req.hasBody)

\* await fn(fetch), await response.json(), and the catch of executeNode
Fetch(req, net) ==
  IF ~RequestAccepted(req)
    THEN [output |-> Output("error", "TypeError: Request with GET/HEAD method cannot have body."),
          status |-> "error"]
  ELSE IF net = "fail"
    THEN [output |-> Output("error", "fetch failed"), status |-> "error"]
  ELSE [output |-> Output("response", ""), status |-> "success"]

\* (mutant) the trigger kinds fall through to the default result
executeNodeNoTriggerBranch(n, net) ==
  CASE n.actionType = RUN_CODE ->
         IF n.throws THEN Caught(n.thrown)
                     ELSE [output |-> Output("returnedValue", ""), status |-> "success"]
    [] n.actionType = API_CALL -> Fetch(ApiRequest(n), net)
    [] n.actionType = COMPUTATION ->
         IF n.throws THEN Caught(n.thrown)
                     ELSE [output |-> Output("result", ""), status |-> "success"]
    [] OTHER ->
         [output |-> Output("result", "No executable action"), status |-> "success"]

executeNode(n, net) ==
  CASE n.actionType = RUN_CODE ->
         IF n.throws THEN Caught(n.thrown)
                     ELSE [output |-> Output("returnedValue", ""), status |-> "success"]
    [] n.actionType = API_CALL -> Fetch(ApiRequest(n), net)
    [] n.actionType = COMPUTATION ->
         IF n.throws THEN Caught(n.thrown)
                     ELSE [output |-> Output("result", ""), status |-> "success"]
    [] n.actionType \in {MANUAL_TRIGGER, SCHEDULE_TRIGGER} ->
         [output |-> Output("trigger", n.actionType), status |-> "success"]
    [] OTHER ->
         [output |-> Output("result", "No executable action"), status |-> "success"]

\* the await of executeNode suspends the run only for real I/O
Suspends(n) == n.actionType = API_CALL /\ RequestAccepted(ApiRequest(n))

----------------------------------------------------------------------------
(* Run assembly: executeWorkflowNow *)

HasNode(ns, id) == \E i \in DOMAIN ns : ns[i].id = id
NodeById(ns, id) == ns[CHOOSE i \in DOMAIN ns : ns[i].id = id]

\* config = workflowNode?.data ?? {} : the {} of a node that is not in nodesById
NoConfig == [none |-> TRUE]

ConfigOf(ns, id) == IF HasNode(ns, id) THEN NodeById(ns, id) ELSE NoConfig

\* Date.now() - nodeStartedAt on the model's clock: a dispatch that stays in
\* the macrotask takes 0 ms, one that waits for a request 1 ms
Elapsed(config) == IF config # NoConfig /\ Suspends(config) THEN 1 ELSE 0

Entry(run, nodeId, input, output, durationMs, status) ==
  [id |-> <<nodeId, run>>, nodeId |-> nodeId, input |-> input, output |-> output,
   durationMs |-> durationMs, status |-> status]

\* (mutant) the entry of a disabled node is reported as a success
SkippedEntryAsSuccess(run, nodeId, config) ==
  Entry(run, nodeId, config, [skipped |-> TRUE, reason |-> "Node is disabled"], 0,
        "success")

SkippedEntry(run, nodeId, config) ==
  Entry(run, nodeId, config, [skipped |-> TRUE, reason |-> "Node is disabled"], 0,
        "skipped")

\* (mutant) the loop is left at the first error
RecordAndBreak(r, res) ==
  LET config == ConfigOf(r.snap, r.order[r.pos])
  IN  [r EXCEPT !.entries = Append(@, Entry(r.id, r.order[r.pos], config, res.output,
                                            Elapsed(config), res.status)),
                !.hasError = @ \/ res.status = "error",
                !.pos = IF res.status = "error" THEN Len(r.order) + 1 ELSE @ + 1]

\* entries.push of the result of an executed node, and hasError
Record(r, res) ==
  LET config == ConfigOf(r.snap, r.order[r.pos])
  IN  [r EXCEPT !.entries = Append(@, Entry(r.id, r.order[r.pos], config, res.output,
                                            Elapsed(config), res.status)),
                !.hasError = @ \/ res.status = "error",
                !.pos = @ + 1]

\* history kept in a run's record: executeNode(config) is called for the node
\* at r.pos
Dispatch(r) == [r EXCEPT !.trace = Append(@, <<"dispatch", r.order[r.pos]>>)]

\* the await of executeNode returns res for the node at r.pos
Settle(r, res) ==
  Record([r EXCEPT !.trace = Append(@, <<"settle", r.order[r.pos]>>)], res)

\* (mutant) the loop does not wait for a pending request: the next node is
\* dispatched while the request is in flight
RECURSIVE AdvanceNoAwait(_)
AdvanceNoAwait(r) ==
  IF r.pos > Len(r.order)
    THEN [r EXCEPT !.done = TRUE]
    ELSE LET id == r.order[r.pos]
         IN  IF HasNode(r.snap, id) /\ NodeById(r.snap, id).muted
               THEN AdvanceNoAwait([r EXCEPT !.entries = Append(@, SkippedEntry(r.id, id, NodeById(r.snap, id))),
                                             !.pos = @ + 1])
             ELSE IF ~HasNode(r.snap, id)
               THEN AdvanceNoAwait(Record(r, [output |-> Output("error", "Node not found"),
                                              status |-> "error"]))
             ELSE IF Suspends(NodeById(r.snap, id))
               THEN IF r.pos < Len(r.order)
                      THEN [Dispatch(r) EXCEPT
                              !.trace = Append(@, <<"dispatch", r.order[r.pos + 1]>>)]
                      ELSE Dispatch(r)
             ELSE AdvanceNoAwait(Settle(Dispatch(r), executeNode(NodeById(r.snap, id), "ok")))

\* `await executeNode(config)` (line 1217) ends with an exception: nothing
\* catches it in executeWorkflowNow, which ends there, before setExecution
Reject(r) == [r EXCEPT !.done = TRUE, !.rejected = TRUE]

\* The for loop from position r.pos on, up to the next await that suspends
\* the run, to the end of the order, or to the exception that ends the run.
RECURSIVE Advance(_)
Advance(r) ==
  IF r.pos > Len(r.order)
    THEN [r EXCEPT !.done = TRUE]
    ELSE LET id == r.order[r.pos]
         IN  IF HasNode(r.snap, id) /\ NodeById(r.snap, id).muted
               THEN Advance([r EXCEPT !.entries = Append(@, SkippedEntry(r.id, id, NodeById(r.snap, id))),
                                      !.pos = @ + 1])
             ELSE IF ~HasNode(r.snap, id)
               THEN Advance(Record(r, [output |-> Output("error", "Node not found"),
                                       status |-> "error"]))
             ELSE IF Suspends(NodeById(r.snap, id))
               THEN Dispatch(r)
             ELSE LET res == executeNode(NodeById(r.snap, id), "ok")
                  IN  IF res.status = "uncaught"
                        THEN Reject(Dispatch(r))
                        ELSE Advance(Settle(Dispatch(r), res))

\* (mutant) the last failed entry is taken
LastError(entries) ==
  entries[CHOOSE i \in DOMAIN entries :
            entries[i].status = "error"
            /\ \A j \in (i+1)..Len(entries) : entries[j].status # "error"]

\* entries.find(e => e.status === 'error')
FirstError(entries) ==
  entries[CHOOSE i \in DOMAIN entries :
            entries[i].status = "error" /\ \A j \in 1..(i-1) : entries[j].status # "error"]

\* (mutant) every entry that is not a success makes the run an error
OverallStatusStrict(r) ==
  IF \E k \in DOMAIN r.entries : r.entries[k].status # "success"
    THEN "error" ELSE "success"

\* status: hasError ? 'error' : 'success'
OverallStatus(r) == IF r.hasError THEN "error" ELSE "success"

\* (mutant) the entries are added to those of the execution on display
PublishAppended(w, r) ==
  LET shown == IF w.execution = NoExecution THEN << >> ELSE w.execution.entries
      exec  == [id |-> r.id,
                status |-> OverallStatus(r),
                triggerDescription |-> "When clicking 'Execute workflow'",
                entries |-> shown \o r.entries]
  IN  setNotification(setExecution(w, exec), "success",
                      "Execution completed successfully.")

\* lines 1231-1252: the Execution is built, published, and the banner set
Publish(w, r) ==
  LET exec == [id |-> r.id,
               status |-> OverallStatus(r),
               triggerDescription |-> "When clicking 'Execute workflow'",
               entries |-> r.entries]
      w1   == setExecution(w, exec)
  IN  IF r.hasError
        THEN LET out == FirstError(r.entries).output
             IN  setNotification(w1, "error",
                   IF out.tag = "error" /\ out.val # ""
                     THEN out.val ELSE "Execution failed for one or more nodes.")
        ELSE setNotification(w1, "success", "Execution completed successfully.")

LastRun(w) == w.runs[Len(w.runs)]

\* a finished activation: its locals are gone, the record of it stays
Retire(r) ==
  [r EXCEPT !.snap = << >>, !.entries = << >>, !.pos = 0, !.hasError = FALSE]

\* c: the runWorkflow call it belongs to; via: "direct" or "scheduled";
\* by: the handler that started it
executeWorkflowNow(w, c, via, by) ==
  LET order == getExecutionOrder(w.nodes, w.edges)
  IN  IF Len(order) = 0
        THEN w
        ELSE LET w1 == clearExecution(w)
                 r  == Advance([id |-> Len(w.runs) + 1, call |-> c, via |-> via,
                                by |-> by, order |-> order, snap |-> w.nodes,
                                pos |-> 1, entries |-> << >>, hasError |-> FALSE,
                                done |-> FALSE, rejected |-> FALSE,
                                sawAbort |-> FALSE, trace |-> << >>])
             IN  IF r.rejected
                   THEN [w1 EXCEPT !.runs = Append(@, Retire(r))]
                 ELSE IF r.done
                   THEN Publish([w1 EXCEPT !.runs = Append(@, Retire(r))], r)
                   ELSE [w1 EXCEPT !.runs = Append(@, r)]

----------------------------------------------------------------------------
(* Trigger controller *)

\* the fire-and-skip guard of runScheduled
GuardSkips(w, c) == w.isExecuting[c]

\* runScheduled of the closure made by runWorkflow call c
runScheduled(w, c, by) ==
  IF GuardSkips(w, c)
    THEN w
    ELSE LET w1 == [w EXCEPT !.isExecuting[c] = TRUE]
             w2 == executeWorkflowNow(w1, c, "scheduled", by)
         IN  IF Len(w2.runs) > Len(w.runs)
                  /\ (~LastRun(w2).done \/ LastRun(w2).rejected)
               THEN w2
               ELSE [w2 EXCEPT !.isExecuting[c] = FALSE]

HasTrigger(ns) == \E i \in DOMAIN ns : ns[i].isTrigger

\* (mutant) the last trigger in list order
TriggerNodeLast(ns) ==
  ns[CHOOSE i \in DOMAIN ns : ns[i].isTrigger /\ \A j \in (i+1)..Len(ns) : ~ns[j].isTrigger]

\* workflowStore.nodes.find(isTrigger): the first one in list order
TriggerNode(ns) ==
  ns[CHOOSE i \in DOMAIN ns : ns[i].isTrigger /\ \A j \in 1..(i-1) : ~ns[j].isTrigger]

TriggerActionType(n) ==
  IF n.actionType # "" THEN n.actionType
  ELSE IF n.label = "Schedule Trigger" THEN SCHEDULE_TRIGGER
  ELSE IF n.label = "Manual Trigger" THEN MANUAL_TRIGGER
  ELSE ""

\* let isExecuting = false of a new runScheduled closure
NewClosure(w, c) ==
  [w EXCEPT !.isExecuting = [k \in DOMAIN @ \cup {c} |-> IF k = c THEN FALSE ELSE @[k]]]

\* lines 1349-1383
ScheduleBranch(w, c, trig, now) ==
  LET ui         == trig.userInput
      between    == IF ui.INTERVAL_BETWEEN_TRIGGER = 0 THEN 1 ELSE ui.INTERVAL_BETWEEN_TRIGGER
      intervalMs == getScheduleIntervalMs(ui.TRIGGER_ON, between)
      firstRunMs == msUntilTime(ui.TIME_TO_TRIGGER, now)
      w1         == [NewClosure(w, c) EXCEPT !.isScheduleActive = TRUE]
  IN  IF firstRunMs <= ImmediateMs
        THEN ArmInterval(runScheduled(w1, c, "runWorkflow"), c, intervalMs)
        ELSE ArmTimeout(w1, c, firstRunMs, intervalMs)

\* runWorkflow(), call number c, at time of day now
runWorkflowBody(w, c, now) ==
  LET w0    == clearSchedule(clearNotification(clearExecution(w)))
      order == getExecutionOrder(w0.nodes, w0.edges)
  IN  IF Len(order) = 0
        THEN setNotification(w0, "error", "Trigger node is required")
      ELSE IF ~HasTrigger(w0.nodes)
        THEN setNotification(w0, "error", "Trigger node is required")
      ELSE LET trig == TriggerNode(w0.nodes)
               tat  == TriggerActionType(trig)
           IN  IF tat = MANUAL_TRIGGER
                 THEN executeWorkflowNow(w0, c, "direct", "runWorkflow")
               ELSE IF tat = SCHEDULE_TRIGGER
                 THEN ScheduleBranch(w0, c, trig, now)
               ELSE executeWorkflowNow(w0, c, "direct", "runWorkflow")

\* the callback of the one-shot timer t (lines 1377-1381)
timeoutCallback(w, t) ==
  LET w1 == [w EXCEPT !.scheduleTimeoutId = 0]
      w2 == runScheduled(w1, t.closure, "timeout")
  IN  ArmInterval(w2, t.closure, t.intervalMs)

\* (mutant) abort also gives up the runs in flight
abortCancelsRuns(w) ==
  [clearSchedule(w) EXCEPT
     !.runs = [i \in DOMAIN @ |-> IF @[i].done THEN @[i]
                                  ELSE Retire([@[i] EXCEPT !.done = TRUE])]]

abortExecution(w) == clearSchedule(w)

\* history kept in a run's record: an abortExecution() ran while it was in flight
MarkAbort(rs) ==
  [i \in DOMAIN rs |-> IF rs[i].done THEN rs[i] ELSE [rs[i] EXCEPT !.sawAbort = TRUE]]

----------------------------------------------------------------------------
(* Handlers, one action each *)

MaxCalls == 2
MaxRuns == 3

\* times of day (ms since midnight) at which runWorkflow() is called; the
\* schedule triggers of InitGraphs fire at 00:01 = 60000 ms
NowSet == {58999, 59000}

Event(name, arg, now, w) ==
  [name |-> name, arg |-> arg, now |-> now, started |-> Len(w.runs) > Len(runs)]

RunWorkflow(now) ==
  /\ calls < MaxCalls
  /\ Len(runs) < MaxRuns
  /\ LET w == runWorkflowBody(World, calls + 1, now)
     IN  /\ Commit(w)
         /\ event' = Event("runWorkflow", calls + 1, now, w)
  /\ calls' = calls + 1
  /\ UNCHANGED << lastOrder, dispatched, exported, computed, singles >>

\* event.arg: the number of timers it cancelled
AbortExecution ==
  /\ LET w == abortExecution(World)
     IN  /\ Commit([w EXCEPT !.runs = MarkAbort(@)])
         /\ event' = Event("abort", Cardinality(timers \ w.timers), 0, w)
  /\ UNCHANGED << calls, lastOrder, dispatched, exported, computed, singles >>

\* the one-shot timer t fires: it leaves the event loop and its callback runs
FireTimeout(t) ==
  /\ t.kind = "timeout"
  /\ Len(runs) < MaxRuns
  /\ LET w == timeoutCallback([World EXCEPT !.timers = @ \ {t}], t)
     IN  /\ Commit(w)
         /\ event' = Event("timeout", t.closure, 0, w)
  /\ UNCHANGED << calls, lastOrder, dispatched, exported, computed, singles >>

\* a tick of the repeating timer t
FireInterval(t) ==
  /\ t.kind = "interval"
  /\ Len(runs) < MaxRuns \/ isExecuting[t.closure]
  /\ LET w == runScheduled(World, t.closure, "interval")
     IN  /\ Commit(w)
         /\ event' = Event("interval", t.closure, 0, w)
  /\ UNCHANGED << calls, lastOrder, dispatched, exported, computed, singles >>

\* the response of the API call that run i awaits arrives (net = "ok") or the
\* request fails (net = "fail"); the run goes on to its next suspension or its end
resumeRun(w, i, net) ==
  LET r0 == w.runs[i]
      r  == Advance(Settle(r0, executeNode(NodeById(r0.snap, r0.order[r0.pos]), net)))
      w1 == [w EXCEPT !.runs[i] = IF r.done THEN Retire(r) ELSE r]
  IN  IF ~r.done \/ r.rejected THEN w1
      ELSE IF r.via = "scheduled"
        THEN [Publish(w1, r) EXCEPT !.isExecuting[r.call] = FALSE]
        ELSE Publish(w1, r)

Resume(i, net) ==
  /\ ~runs[i].done
  /\ LET w == resumeRun(World, i, net)
     IN  /\ Commit(w)
         /\ event' = Event("resume", i, 0, w)
  /\ UNCHANGED << calls, lastOrder, dispatched, exported, computed, singles >>

\* removeNodes([id]): the node and the edges connected to it leave the graph
removeNode(w, id) ==
  [w EXCEPT !.nodes = SelectSeq(@, LAMBDA n : n.id # id),
            !.edges = SelectSeq(@, LAMBDA e : e.source # id /\ e.target # id)]

OnNodeDelete(id) ==
  /\ id \in NodeIdsOf(nodes)
  /\ LET w == removeNode(World, id)
     IN  /\ Commit(w)
         /\ event' = Event("nodeDelete", id, 0, w)
  /\ UNCHANGED << calls, lastOrder, dispatched, exported, computed, singles >>

\* (mutant) delete-all leaves the schedule alone
confirmDeleteAllKeepsSchedule(w) ==
  LET w2 == [w EXCEPT !.nodes = << >>, !.edges = << >>]
      w3 == clearExecution(w2)
  IN  setNotification(w3, "success", "Deleted node(s)")

confirmDeleteAllBody(w) ==
  LET w1 == clearSchedule(w)
      w2 == [w1 EXCEPT !.nodes = << >>, !.edges = << >>]
      w3 == clearExecution(w2)
  IN  setNotification(w3, "success", "Deleted node(s)")

\* the Delete All modal is offered only when the canvas holds nodes
ConfirmDeleteAll ==
  /\ Len(nodes) > 0
  /\ LET w == confirmDeleteAllBody(World)
     IN  /\ Commit(w)
         /\ event' = Event("deleteAll", 0, 0, w)
  /\ UNCHANGED << calls, lastOrder, dispatched, exported, computed, singles >>

----------------------------------------------------------------------------
(* Execution of one node: onNodeExecute (executeSingleNode) *)

\* `exec-${startedAt}` of the k-th single execution: kept apart from the ids
\* of the runs, which count from 1
SingleId(k) == 0 - k

\* lines 1124-1142: the entry and the Execution of the k-th single execution
SingleExecution(k, n, res) ==
  [id |-> SingleId(k),
   status |-> res.status,
   triggerDescription |-> "Single node execution: " \o n.label,
   entries |-> <<Entry(SingleId(k), n.id, n, res.output, Elapsed(n), res.status)>>]

\* lines 1144-1153: setExecution and the banner
publishSingle(w, k, n, res) ==
  LET w1 == setExecution(w, SingleExecution(k, n, res))
  IN  IF res.status = "error"
        THEN setNotification(w1, "error",
               IF res.output.val # "" THEN res.output.val ELSE "Node execution failed.")
        ELSE setNotification(w1, "success", n.label \o " executed successfully.")

\* (mutant) it begins as runWorkflow does, cancelling the schedule
beginSingleAsRun(w) == clearSchedule(clearNotification(clearExecution(w)))

\* lines 1115-1116: what onNodeExecute does before it dispatches the node
beginSingle(w) == clearNotification(clearExecution(w))

Single(k, n, done, published, res) ==
  [id |-> SingleId(k), nodeId |-> n.id, config |-> n, done |-> done,
   published |-> published, result |-> res]

NoResult == [output |-> Output("none", ""), status |-> "pending"]

\* onNodeExecute(id) up to the await of executeNode that waits for a request,
\* or to its end; an exception that leaves executeNode ends the handler
\* before anything is published.  The user clicks Run or Execute at most
\* MaxCalls times.
ExecuteSingleNode(id) ==
  /\ HasNode(nodes, id)
  /\ calls + Len(singles) < MaxCalls
  /\ LET n   == NodeById(nodes, id)
         k   == Len(singles) + 1
         w0  == beginSingle(World)
         res == executeNode(n, "ok")
     IN  /\ IF Suspends(n)
               THEN /\ Commit(w0)
                    /\ singles' = Append(singles, Single(k, n, FALSE, FALSE, NoResult))
             ELSE IF res.status = "uncaught"
               THEN /\ Commit(w0)
                    /\ singles' = Append(singles, Single(k, n, TRUE, FALSE, res))
               ELSE /\ Commit(publishSingle(w0, k, n, res))
                    /\ singles' = Append(singles, Single(k, n, TRUE, TRUE, res))
         /\ event' = Event("executeSingle", id, 0, w0)
  /\ UNCHANGED << calls, lastOrder, dispatched, exported, computed >>

\* the response of the request that the k-th single execution awaits arrives
\* (net = "ok") or the request fails (net = "fail")
ResumeSingle(k, net) ==
  /\ k \in DOMAIN singles
  /\ ~singles[k].done
  /\ LET n   == singles[k].config
         res == executeNode(n, net)
         w   == publishSingle(World, k, n, res)
     IN  /\ Commit(w)
         /\ singles' = [singles EXCEPT ![k] = Single(k, n, TRUE, TRUE, res)]
         /\ event' = Event("resumeSingle", k, 0, w)
  /\ UNCHANGED << calls, lastOrder, dispatched, exported, computed >>

----------------------------------------------------------------------------
(* Initial states *)

ManualTrigger(id) ==
  MkNode(id, "Manual Trigger", TRUE, MANUAL_TRIGGER, FALSE, DefaultInput)
ScheduleTrigger(id) ==
  MkNode(id, "Schedule Trigger", TRUE, SCHEDULE_TRIGGER, FALSE, MkInput("min", 5, <<0, 1>>))
ScheduleEvery(id, triggerOn, between, time) ==
  MkNode(id, "Schedule Trigger", TRUE, SCHEDULE_TRIGGER, FALSE,
         MkInput(triggerOn, between, time))
ApiCall(id, muted) == MkNode(id, "API Call", FALSE, API_CALL, muted, ApiInput)
Computation(id) == MkNode(id, "Computation", FALSE, COMPUTATION, FALSE, DefaultInput)
RunCode(id) == MkNode(id, "Run Code", FALSE, RUN_CODE, FALSE, DefaultInput)

Graph(ns, es) == [nodes |-> ns, edges |-> es]

\* Graphs on the canvas when the engine is first used: built by drag and drop
\* and connect, or imported (an imported edge may end at any imported node).
InitGraphs ==
  { Graph(<< >>, << >>),
    Graph(<<ManualTrigger(1), ApiCall(2, FALSE), Computation(3)>>,
          <<MkEdge(1, 2), MkEdge(2, 3)>>),
    Graph(<<ManualTrigger(1), ApiCall(2, TRUE), ApiCall(3, FALSE)>>,
          <<MkEdge(1, 2), MkEdge(2, 3)>>),
    Graph(<<ScheduleTrigger(1), ApiCall(2, FALSE)>>, <<MkEdge(1, 2)>>),
    Graph(<<ScheduleTrigger(1), Computation(2)>>, <<MkEdge(1, 2)>>),
    Graph(<<ApiCall(1, FALSE), Computation(2)>>, <<MkEdge(1, 2)>>),
    Graph(<<ManualTrigger(1)>>, <<MkEdge(1, 1)>>),
    Graph(<<ScheduleTrigger(1), ApiCall(2, FALSE)>>, <<MkEdge(1, 2), MkEdge(2, 1)>>),
    Graph(<<ManualTrigger(1), ScheduleTrigger(2), ApiCall(3, FALSE)>>,
          <<MkEdge(1, 3), MkEdge(2, 3)>>),
    Graph(<<ManualTrigger(1), ApiCall(2, FALSE), ApiCall(3, FALSE)>>,
          <<MkEdge(1, 2), MkEdge(1, 3)>>),
    Graph(<<ScheduleEvery(1, "hour", 2, <<0, 1>>), ScheduleEvery(2, "min", 5, <<9, 30>>),
            ManualTrigger(3)>>, << >>),
    Graph(<<ManualTrigger(1), Throwing(RunCode(2), "Error: boom"), ApiCall(3, FALSE)>>,
          <<MkEdge(1, 2), MkEdge(2, 3)>>),
    Graph(<<ManualTrigger(1), Throwing(RunCode(2), ""), Computation(3)>>,
          <<MkEdge(1, 2), MkEdge(2, 3)>>) }

InitEngine ==
  /\ lastOrder = NotCalled
  /\ dispatched = NotDispatched
  /\ exported = NotExported
  /\ computed = NotComputed
  /\ singles = << >>
  /\ execution = NoExecution
  /\ selectedEntryId = NoEntry
  /\ notification = NoNotification
  /\ scheduleTimerId = 0
  /\ scheduleTimeoutId = 0
  /\ isScheduleActive = FALSE
  /\ timers = {}
  /\ nextTimerId = 1
  /\ isExecuting = [k \in {} |-> FALSE]
  /\ calls = 0
  /\ runs = << >>
  /\ event = [name |-> "init", arg |-> 0, now |-> 0, started |-> FALSE]

Init ==
  /\ \E g \in InitGraphs : nodes = g.nodes /\ edges = g.edges
  /\ InitEngine

Next ==
  \/ \E now \in NowSet : RunWorkflow(now)
  \/ AbortExecution
  \/ \E t \in timers : FireTimeout(t)
  \/ \E t \in timers : FireInterval(t)
  \/ \E i \in DOMAIN runs, net \in {"ok", "fail"} : Resume(i, net)
  \/ \E id \in NodeIds : OnNodeDelete(id)
  \/ ConfirmDeleteAll

Spec == Init /\ [][Next]_vars

----------------------------------------------------------------------------
(* The engine together with the execution of single nodes *)

SingleGraphs ==
  { Graph(<<ManualTrigger(1), ApiCall(2, TRUE), Throwing(RunCode(3), "Error: boom")>>,
          <<MkEdge(1, 2), MkEdge(2, 3)>>),
    Graph(<<ScheduleTrigger(1), ApiCall(2, FALSE)>>, <<MkEdge(1, 2)>>),
    Graph(<<Throwing(RunCode(1), Unprintable), ApiCall(2, FALSE)>>, <<MkEdge(1, 2)>>) }

InitSingle ==
  /\ \E g \in SingleGraphs : nodes = g.nodes /\ edges = g.edges
  /\ InitEngine

NextSingle ==
  \/ \E id \in NodeIds : ExecuteSingleNode(id)
  \/ \E k \in 1..MaxCalls, net \in {"ok", "fail"} : ResumeSingle(k, net)
  \/ \E now \in NowSet : calls + Len(singles) < MaxCalls /\ RunWorkflow(now)
  \/ AbortExecution
  \/ \E t \in timers : FireTimeout(t)
  \/ \E t \in timers : FireInterval(t)
  \/ \E i \in DOMAIN runs, net \in {"ok", "fail"} : Resume(i, net)

SpecSingle == InitSingle /\ [][NextSingle]_vars

----------------------------------------------------------------------------
(* The recorder on its own: the actions of the executionLog store *)

\* Executions handed to setExecution: of run 1 or 2, with an entry for each
\* node of an order of up to MaxNodes nodes, or with no entry
RecorderExecutions ==
  {[id |-> i, status |-> st,
    triggerDescription |-> "When clicking 'Execute workflow'",
    entries |-> [k \in DOMAIN order |->
                   Entry(i, order[k], NoConfig, Output("result", ""), 0, "success")]] :
     i \in 1..2, st \in {"success", "error"},
     order \in {q \in SeqsUpTo(NodeIds, MaxNodes) : IsInjective(q)}}

SetExecution(value) ==
  /\ LET w == setExecution(World, value)
     IN  /\ Commit(w)
         /\ event' = Event("setExecution", value, 0, w)
  /\ UNCHANGED << calls, lastOrder, dispatched, exported, computed, singles >>

ClearExecution ==
  /\ LET w == clearExecution(World)
     IN  /\ Commit(w)
         /\ event' = Event("clearExecution", 0, 0, w)
  /\ UNCHANGED << calls, lastOrder, dispatched, exported, computed, singles >>

\* the log panel selects one of the entries that it lists
SetSelectedEntryId(k) ==
  /\ execution # NoExecution
  /\ k \in DOMAIN execution.entries
  /\ LET w == setSelectedEntryId(World, execution.entries[k].id)
     IN  /\ Commit(w)
         /\ event' = Event("setSelectedEntryId", execution.entries[k].id, 0, w)
  /\ UNCHANGED << calls, lastOrder, dispatched, exported, computed, singles >>

\* the ids that an entry of RecorderExecutions can have
EntryIds == {<<n, i>> : n \in NodeIds, i \in 1..2}

\* setSelectedEntryId(id: string | null) called with any id: of an entry that
\* the execution lists, of an entry of another execution, or null
SelectAnyEntryId(id) ==
  /\ LET w == setSelectedEntryId(World, id)
     IN  /\ Commit(w)
         /\ event' = Event("selectAnyEntryId", id, 0, w)
  /\ UNCHANGED << calls, lastOrder, dispatched, exported, computed, singles >>

InitRecorder ==
  /\ nodes = << >>
  /\ edges = << >>
  /\ InitEngine

NextRecorder ==
  \/ \E value \in RecorderExecutions : SetExecution(value)
  \/ ClearExecution
  \/ \E k \in NodeIds : SetSelectedEntryId(k)
  \/ \E id \in EntryIds \cup {NoEntry} : SelectAnyEntryId(id)

SpecRecorder == InitRecorder /\ [][NextRecorder]_vars

----------------------------------------------------------------------------
(* The scheduler on its own: getExecutionOrder called on any bounded graph *)

CallGetExecutionOrder ==
  /\ ~lastOrder.called
  /\ lastOrder' = [called |-> TRUE, order |-> getExecutionOrder(nodes, edges)]
  /\ UNCHANGED << nodes, edges, dispatched, exported, computed, singles, execution, selectedEntryId, notification,
                  scheduleTimerId, scheduleTimeoutId, isScheduleActive, timers,
                  nextTimerId, isExecuting, calls, runs, event >>

InitOrder ==
  /\ nodes \in NodeLists
  /\ edges \in EdgeLists
  /\ InitEngine

NextOrder == CallGetExecutionOrder

SpecOrder == InitOrder /\ [][NextOrder]_vars

----------------------------------------------------------------------------
(* The dispatcher on its own: executeNode called on any bounded node config *)

\* userInput objects of an API Call node: METHOD, BODY and HEADERS present or
\* not (NodeInfoModal keeps the BODY typed before the method was set to GET)
ApiInputs ==
  {   [URL |-> "https://api.example.com"]
   @@ (IF m = "" THEN << >> ELSE ("METHOD" :> m))
   @@ (IF b = "absent" THEN << >> ELSE ("BODY" :> b))
   @@ (IF h = "absent" THEN << >> ELSE ("HEADERS" :> h)) :
     m \in {"", "GET", "POST", "DELETE"},
     b \in {"absent", "", "{\"a\":1}"},
     h \in {"absent", "", "{\"X\":\"1\"}", "not json"} }

\* String(error) of what a script or an expression can raise
Raised == {"Error: boom", "SyntaxError: Unexpected token ')'",
           "ReferenceError: x is not defined", "", Unprintable}

DispatchConfigs ==
     {MkNode(1, "API Call", FALSE, API_CALL, FALSE, ui) : ui \in ApiInputs}
  \cup {RunCode(1), Computation(1), ManualTrigger(1), ScheduleTrigger(1)}
  \cup {Throwing(RunCode(1), e) : e \in Raised}
  \cup {Throwing(Computation(1), e) : e \in Raised}
  \cup {MkNode(1, l, t, a, FALSE, DefaultInput) :
          l \in {"Schedule Trigger", "Node"}, t \in BOOLEAN, a \in {"", "webhook"}}

CallExecuteNode(net) ==
  /\ ~dispatched.called
  /\ dispatched' = [called |-> TRUE, config |-> nodes[1], net |-> net,
                     requested |-> nodes[1].actionType = API_CALL,
                     request |-> ApiRequest(nodes[1]),
                     result |-> executeNode(nodes[1], net)]
  /\ UNCHANGED << nodes, edges, lastOrder, exported, computed, singles, execution, selectedEntryId, notification,
                  scheduleTimerId, scheduleTimeoutId, isScheduleActive, timers,
                  nextTimerId, isExecuting, calls, runs, event >>

InitDispatch ==
  /\ \E n \in DispatchConfigs : nodes = <<n>>
  /\ edges = << >>
  /\ InitEngine

NextDispatch == \E net \in {"ok", "fail"} : CallExecuteNode(net)

SpecDispatch == InitDispatch /\ [][NextDispatch]_vars

----------------------------------------------------------------------------
(* Import of a workflow file: isValidNodeData and handleImport *)

MaxImports == 2

\* JSON values of the parsed file, by typeof; JUndefined is a property that
\* the object does not have
JStr(t) == [kind |-> "string", text |-> t]
JBool(b) == [kind |-> "boolean", text |-> IF b THEN "true" ELSE "false"]
JNum == [kind |-> "number", text |-> "1"]
JNull == [kind |-> "null", text |-> ""]
JArr == [kind |-> "array", text |-> ""]
JUndefined == [kind |-> "undefined", text |-> ""]
JObj(fields) == [kind |-> "object", text |-> "", fields |-> fields]
JNumber(n) == [kind |-> "number", text |-> "", num |-> n]
JPosition(pos) == JObj([x |-> JNumber(pos[1]), y |-> JNumber(pos[2])])

\* v[name] of a value that is not null
Prop(v, name) ==
  IF v.kind = "object" /\ name \in DOMAIN v.fields THEN v.fields[name] ELSE JUndefined

\* typeof v === 'string'
IsString(v) == v.kind = "string"

\* typeof v === 'object' && v !== null : objects and arrays
IsObject(v) == v.kind \in {"object", "array"}

\* (mutant) an empty label passes
isValidNodeDataAnyLabel(node) ==
  /\ IsObject(node)
  /\ IsString(Prop(node, "label"))
  /\ IsObject(Prop(node, "data"))
  /\ IsString(Prop(Prop(node, "data"), "label"))
  /\ IsString(Prop(Prop(node, "data"), "actionType"))
  /\ IsObject(Prop(Prop(node, "data"), "userInput"))

isValidNodeData(node) ==
  /\ IsObject(node)
  /\ IsString(Prop(node, "label")) /\ Prop(node, "label").text # ""
  /\ IsObject(Prop(node, "data"))
  /\ IsString(Prop(Prop(node, "data"), "label"))
  /\ IsString(Prop(Prop(node, "data"), "actionType"))
  /\ IsObject(Prop(Prop(node, "data"), "userInput"))

\* the parsed file: format "invalid" (JSON.parse throws), "object" ({nodes,
\* edges}; a property that is not an array counts as the empty list), "array"
\* (the old format: a list of nodes) or "single" (any other value)
NodesToImport(file) ==
  CASE file.format = "object" -> file.nodes
    [] file.format = "array" -> file.nodes
    [] OTHER -> <<file.value>>

EdgesToImport(file) == IF file.format = "object" THEN file.edges ELSE << >>

\* (mutant) only the first node of the batch is validated
InvalidNodesOfHead(batch) ==
  IF batch = << >> THEN << >>
  ELSE SelectSeq(<<Head(batch)>>, LAMBDA n : ~isValidNodeData(n))

\* nodesToImport.filter(n => !isValidNodeData(n))
InvalidNodes(batch) == SelectSeq(batch, LAMBDA n : ~isValidNodeData(n))

\* `temp-${addedCount}`
TempId(addedCount) == "temp-" \o ToString(addedCount)

\* nodeData.id ?? `temp-${addedCount}`
OldId(raw, addedCount) ==
  IF Prop(raw, "id").kind \in {"undefined", "null"}
    THEN TempId(addedCount) ELSE Prop(raw, "id").text

\* `node-${Date.now()}-${addedCount}`, as a number: the ids of one import are
\* now * IdBase + addedCount
IdBase == 10

\* (mutant) the id is made of the clock reading alone
NewIdClockOnly(now, addedCount) == now * IdBase

NewId(now, addedCount) == now * IdBase + addedCount

\* { x: startX, y: startY } when addedCount nodes were added: three columns
\* 200 apart, rows 150 apart
GridPosition(addedCount) ==
  <<100 + 200 * (addedCount % 3), 100 + 150 * (addedCount \div 3)>>

\* position.x, position.y of a position that the file gives
Coordinates(v) ==
  <<IF "num" \in DOMAIN Prop(v, "x") THEN Prop(v, "x").num ELSE 0,
    IF "num" \in DOMAIN Prop(v, "y") THEN Prop(v, "y").num ELSE 0>>

\* nodeData.position ?? nodeData.data.position ?? { x: startX, y: startY }
ImportedPosition(raw, addedCount) ==
  LET top    == Prop(raw, "position")
      inData == Prop(Prop(raw, "data"), "position")
  IN  IF top.kind \notin {"undefined", "null"} THEN Coordinates(top)
      ELSE IF inData.kind \notin {"undefined", "null"} THEN Coordinates(inData)
      ELSE GridPosition(addedCount)

\* (mutant) every imported node is laid out on the grid
ImportedNodeOnGrid(raw, newId, addedCount) ==
  LET data   == Prop(raw, "data")
      ui     == Prop(data, "userInput")
      script == Prop(data, "script")
      n      == MkNode(newId, Prop(raw, "label").text,
                       Prop(data, "isTrigger") = JBool(TRUE),
                       Prop(data, "actionType").text,
                       Prop(data, "muted") = JBool(TRUE),
                       IF ui.kind = "object" THEN ui.fields ELSE << >>)
      m      == At(n, GridPosition(addedCount))
  IN  IF script.kind = "object" /\ script.fields.throws
        THEN Throwing(m, script.fields.thrown) ELSE m

\* the node that addNodes gets: data = {...nodeData.data, label: nodeData.label};
\* data.script stands for the script text that userInput holds, by what
\* evaluating it does
ImportedNode(raw, newId, addedCount) ==
  LET data   == Prop(raw, "data")
      ui     == Prop(data, "userInput")
      script == Prop(data, "script")
      n      == MkNode(newId, Prop(raw, "label").text,
                       Prop(data, "isTrigger") = JBool(TRUE),
                       Prop(data, "actionType").text,
                       Prop(data, "muted") = JBool(TRUE),
                       IF ui.kind = "object" THEN ui.fields ELSE << >>)
      m      == At(n, ImportedPosition(raw, addedCount))
  IN  IF script.kind = "object" /\ script.fields.throws
        THEN Throwing(m, script.fields.thrown) ELSE m

\* idMapping after the loop over the nodes: old id -> new id, a later node
\* with the same old id replaces the earlier one
IdMapping(batch, now) ==
  [old \in {OldId(batch[i], i - 1) : i \in DOMAIN batch} |->
     LET last == CHOOSE i \in DOMAIN batch :
                   /\ OldId(batch[i], i - 1) = old
                   /\ \A j \in (i + 1)..Len(batch) : OldId(batch[j], j - 1) # old
     IN  NewId(now, last - 1)]

\* the loop over edgesToImport up to its end or to the first edge that is
\* null, where reading edge.source throws
RECURSIVE AddEdges(_, _, _)
AddEdges(rest, mapping, acc) ==
  IF rest = << >>
    THEN [edges |-> acc, threw |-> FALSE]
  ELSE IF Head(rest).kind = "null"
    THEN [edges |-> acc, threw |-> TRUE]
  ELSE LET src == Prop(Head(rest), "source")
           tgt == Prop(Head(rest), "target")
       IN  IF /\ IsString(src) /\ src.text \in DOMAIN mapping
              /\ IsString(tgt) /\ tgt.text \in DOMAIN mapping
             THEN AddEdges(Tail(rest), mapping,
                           Append(acc, MkEdge(mapping[src.text], mapping[tgt.text])))
             ELSE AddEdges(Tail(rest), mapping, acc)

ImportedMessage(addedCount, edgesAdded) ==
  "Imported " \o ToString(addedCount) \o " node(s)"
  \o (IF edgesAdded > 0 THEN " and " \o ToString(edgesAdded) \o " edge(s)" ELSE "")

InvalidFormatMessage ==
  "Invalid node format. Required: label, data.label, data.actionType, data.userInput"

\* handleImport for the chosen file, at clock reading now
handleImportBody(w, file, now) ==
  IF file.format = "invalid"
    THEN setNotification(w, "error", "Invalid JSON format")
  ELSE LET batch == NodesToImport(file)
       IN  IF Len(InvalidNodes(batch)) > 0
             THEN setNotification(w, "error", InvalidFormatMessage)
           ELSE LET added == [i \in DOMAIN batch |-> ImportedNode(batch[i], NewId(now, i - 1), i - 1)]
                    res   == AddEdges(EdgesToImport(file), IdMapping(batch, now), << >>)
                    w1    == [w EXCEPT !.nodes = @ \o added, !.edges = @ \o res.edges]
                IN  IF res.threw
                      THEN setNotification(w1, "error", "Failed to import workflow")
                      ELSE setNotification(w1, "success",
                                           ImportedMessage(Len(batch), Len(res.edges)))

\* the clock has moved on since the last import, whose ids carry its reading
HandleImport(file, now) ==
  /\ event.now < now
  /\ \A i \in DOMAIN nodes : nodes[i].id \div IdBase < now
  /\ LET w == handleImportBody(World, file, now)
     IN  /\ Commit(w)
         /\ event' = Event("import", file, now, w)
  /\ UNCHANGED << calls, lastOrder, dispatched, exported, computed, singles >>

\* node objects of a file: every combination of a present, empty, wrongly
\* typed or absent label, data, data.label, data.actionType, data.userInput
RawUserInputs ==
  {JObj([JAVASCRIPT_CODE |-> "return 1"]), JArr, JNull, JStr("x"), JUndefined}

RawDatas ==
     {JNull, JStr("x"), JArr, JUndefined}
  \cup {JObj([label |-> l, actionType |-> a, userInput |-> u, isTrigger |-> JBool(FALSE)]) :
          l \in {JStr("Run Code"), JStr(""), JUndefined},
          a \in {JStr(RUN_CODE), JStr(""), JNum, JUndefined},
          u \in RawUserInputs}

RawNodes ==
     {JNull, JStr("x")}
  \cup {JObj([label |-> l, data |-> d]) :
          l \in {JStr("Run Code"), JStr(""), JNum, JUndefined}, d \in RawDatas}

\* a node object as exportWorkflow writes it
RawNode(id, label, actionType, isTrigger) ==
  JObj([id |-> JStr(id), label |-> JStr(label),
        data |-> JObj([label |-> JStr(label), actionType |-> JStr(actionType),
                       isTrigger |-> JBool(isTrigger), userInput |-> JObj(DefaultInput)])])

RawEdge(s, t) == JObj([source |-> JStr(s), target |-> JStr(t)])

File(format, ns, es) == [format |-> format, nodes |-> ns, edges |-> es, value |-> JNull]

ImportFiles ==
     {File("object", <<n>>, << >>) : n \in RawNodes}
  \cup { File("invalid", << >>, << >>),
         File("object", << >>, << >>),
         [File("single", << >>, << >>) EXCEPT !.value = JNum],
         File("array", <<RawNode("a", "Manual Trigger", MANUAL_TRIGGER, TRUE),
                         RawNode("b", "Run Code", RUN_CODE, FALSE)>>, << >>),
         File("object",
              <<RawNode("a", "Manual Trigger", MANUAL_TRIGGER, TRUE),
                RawNode("b", "Run Code", RUN_CODE, FALSE)>>,
              <<RawEdge("a", "b"), RawEdge("b", "zz"), RawEdge("b", "b")>>),
         File("object",
              <<RawNode("a", "Manual Trigger", MANUAL_TRIGGER, TRUE)>>,
              <<RawEdge("a", "a"), JNull>>),
         File("object",
              <<RawNode("a", "Manual Trigger", MANUAL_TRIGGER, TRUE),
                JObj([id |-> JStr("b"), label |-> JStr("Run Code"),
                      data |-> JObj([label |-> JStr("Run Code"),
                                     userInput |-> JObj(DefaultInput)])]),
                RawNode("c", "Computation", COMPUTATION, FALSE)>>,
              <<RawEdge("a", "c")>>),
         File("object",
              <<RawNode("a", "Manual Trigger", MANUAL_TRIGGER, TRUE),
                RawNode("b", "Run Code", RUN_CODE, FALSE),
                JObj([label |-> JStr(""), data |-> JNull])>>,
              <<RawEdge("a", "b")>>) }

InitImport ==
  /\ \E g \in {Graph(<< >>, << >>),
                Graph(<<ManualTrigger(1), ApiCall(2, FALSE)>>, <<MkEdge(1, 2)>>)} :
        nodes = g.nodes /\ edges = g.edges
  /\ InitEngine

NextImport == \E file \in ImportFiles, now \in 1..MaxImports : HandleImport(file, now)

SpecImport == InitImport /\ [][NextImport]_vars

----------------------------------------------------------------------------
(* Export of the workflow, and the file imported again *)

\* the id of a node as the text that the file holds
IdText(id) == "node-" \o ToString(id)

\* JSON.stringify of { id, label, position, data } of a store node
ExportedNode(n) ==
  JObj([id |-> JStr(IdText(n.id)), label |-> JStr(n.label),
        position |-> JPosition(n.position),
        data |-> JObj([label |-> JStr(n.label), actionType |-> JStr(n.actionType),
                       isTrigger |-> JBool(n.isTrigger), muted |-> JBool(n.muted),
                       userInput |-> JObj(n.userInput),
                       script |-> JObj([throws |-> n.throws, thrown |-> n.thrown])])])

\* JSON.stringify of { source, target } of a store edge
ExportedEdge(e) == RawEdge(IdText(e.source), IdText(e.target))

ExportedFile(ns, es) ==
  File("object", [i \in DOMAIN ns |-> ExportedNode(ns[i])],
                 [k \in DOMAIN es |-> ExportedEdge(es[k])])

ExportedMessage(nodeCount, edgeCount) ==
  "Exported " \o ToString(nodeCount) \o " node(s) and "
  \o ToString(edgeCount) \o " edge(s)"

\* exportWorkflow: the notification; nothing is downloaded for an empty canvas
exportWorkflow(w) ==
  IF Len(w.nodes) = 0
    THEN setNotification(w, "error", "No nodes to export")
    ELSE setNotification(w, "success", ExportedMessage(Len(w.nodes), Len(w.edges)))

ExportWorkflow ==
  /\ LET w == exportWorkflow(World)
     IN  /\ Commit(w)
         /\ event' = Event("export", 0, 0, w)
  /\ exported' = IF Len(nodes) = 0 THEN exported
                 ELSE [called |-> TRUE, file |-> ExportedFile(nodes, edges),
                       nodes |-> nodes, edges |-> edges]
  /\ UNCHANGED << calls, lastOrder, dispatched, computed, singles >>

\* the user picks the downloaded file in the import dialog; the canvas is
\* kept to twice MaxNodes nodes
ImportExported(now) ==
  /\ exported.called
  /\ Len(nodes) + Len(exported.nodes) <= 2 * MaxNodes
  /\ Len(exported.nodes) <= MaxNodes
  /\ HandleImport(exported.file, now)

\* onNodeSwitchOff: muted is toggled
onNodeSwitchOff(w, id) ==
  [w EXCEPT !.nodes = [i \in DOMAIN @ |->
                         IF @[i].id = id THEN [@[i] EXCEPT !.muted = ~@] ELSE @[i]]]

OnNodeSwitchOff(id) ==
  /\ HasNode(nodes, id)
  /\ LET w == onNodeSwitchOff(World, id)
     IN  /\ Commit(w)
         /\ event' = Event("switchOff", id, 0, w)
  /\ UNCHANGED << calls, lastOrder, dispatched, exported, computed, singles >>

\* where the nodes of the canvas were dropped
Placed(ns) == [i \in DOMAIN ns |-> At(ns[i], <<40 * i, 300 - 70 * i>>)]

InitRoundTrip ==
  /\ \E g \in InitGraphs : nodes = Placed(g.nodes) /\ edges = g.edges
  /\ InitEngine

NextRoundTrip ==
  \/ ExportWorkflow
  \/ ConfirmDeleteAll
  \/ \E id \in NodeIds : OnNodeSwitchOff(id)
  \/ \E now \in 1..MaxImports : ImportExported(now)

SpecRoundTrip == InitRoundTrip /\ [][NextRoundTrip]_vars

----------------------------------------------------------------------------
(* The schedule helpers on their own: getScheduleIntervalMs and msUntilTime *)

MaxMultiplier == 5

TriggerOnValues == {"sec", "min", "hour", "day", "week", "month", "year"}

CallGetScheduleIntervalMs(triggerOn, between) ==
  /\ ~computed.called
  /\ computed' = [called |-> TRUE, fn |-> "getScheduleIntervalMs",
                   triggerOn |-> triggerOn, between |-> between,
                   result |-> getScheduleIntervalMs(triggerOn, between)]
  /\ UNCHANGED << nodes, edges, lastOrder, dispatched, exported, singles, execution,
                  selectedEntryId, notification, scheduleTimerId, scheduleTimeoutId,
                  isScheduleActive, timers, nextTimerId, isExecuting, calls, runs, event >>

\* the length of today's local day
DayLength(change) == DayMs + change * HourMs

TimesOfDay == {<<0, 0>>, <<1, 30>>, <<2, 30>>, <<9, 30>>, <<23, 59>>}

\* clock readings: midnight, around 01:30 and 09:30, after the clock change,
\* and the last milliseconds of a day of 23, 24 and 25 hours
ClockReadings ==
  {0, 1, 5400000, 14400000, 34199999, 34200000, 34200001,
   82799999, 86399999, 89999999}

CallMsUntilTime(change, time, now) ==
  /\ ~computed.called
  /\ now < DayLength(change)
  /\ computed' = [called |-> TRUE, fn |-> "msUntilTime",
                   change |-> change, time |-> time, now |-> now,
                   result |-> msUntilTimeOn(change, time, now)]
  /\ UNCHANGED << nodes, edges, lastOrder, dispatched, exported, singles, execution,
                  selectedEntryId, notification, scheduleTimerId, scheduleTimeoutId,
                  isScheduleActive, timers, nextTimerId, isExecuting, calls, runs, event >>

InitSchedule ==
  /\ nodes = << >>
  /\ edges = << >>
  /\ InitEngine

NextSchedule ==
  \/ \E triggerOn \in TriggerOnValues, between \in -1..MaxMultiplier :
       CallGetScheduleIntervalMs(triggerOn, between)
  \/ \E change \in {-1, 0, 1}, time \in TimesOfDay, now \in ClockReadings :
       CallMsUntilTime(change, time, now)

SpecSchedule == InitSchedule /\ [][NextSchedule]_vars

----------------------------------------------------------------------------
(* Graph notions the claims about the scheduler are stated with *)

Ids == NodeIdsOf(nodes)

\* an edge of the edge list between two nodes of the node list
EdgeBetween(a, b) ==
  /\ a \in Ids
  /\ b \in Ids
  /\ \E i \in DOMAIN edges : edges[i].source = a /\ edges[i].target = b

\* a path of at least one and at most k edges from a to b
RECURSIVE PathWithin(_, _, _)
PathWithin(a, b, k) ==
  /\ k > 0
  /\ \/ EdgeBetween(a, b)
     \/ \E c \in Ids : EdgeBetween(a, c) /\ PathWithin(c, b, k - 1)

Reaches(a, b) == PathWithin(a, b, Cardinality(Ids))

Acyclic == \A v \in Ids : ~Reaches(v, v)

\* on a cycle, or reachable from a node on a cycle
CycleBound == {v \in Ids : \E u \in Ids : Reaches(u, u) /\ (u = v \/ Reaches(u, v))}

Occurrences(s, x) == Cardinality({i \in DOMAIN s : s[i] = x})

\* C1: for an acyclic graph, getExecutionOrder returns every node exactly
\* once, and every node strictly after each node with an edge into it.
C1_AcyclicOrderIsTopological ==
  (lastOrder.called /\ Acyclic) =>
    LET o == lastOrder.order
    IN  /\ \A v \in Ids : Occurrences(o, v) = 1
        /\ Len(o) = Cardinality(Ids)
        /\ \A a, b \in Ids : EdgeBetween(a, b) => IndexOf(o, a) < IndexOf(o, b)

\* three nodes whose list order is not a topological order, two edges
C1_Witness ==
  /\ lastOrder.called
  /\ Acyclic
  /\ Len(nodes) = 3
  /\ \E a, b, c \in Ids : a # c /\ EdgeBetween(a, b) /\ EdgeBetween(b, c)
  /\ \E i \in DOMAIN nodes : i < Len(nodes) /\ EdgeBetween(nodes[i + 1].id, nodes[i].id)

\* C2: the nodes missing from the order are exactly those on a cycle
\* (self-loops included) or reachable from one; every other node is there once.
C2_ExcludedAreCycleBound ==
  lastOrder.called =>
    LET o == lastOrder.order
    IN  /\ Ids \ Range(o) = CycleBound
        /\ Range(o) \subseteq Ids
        /\ \A v \in Ids \ CycleBound : Occurrences(o, v) = 1

\* a node on a cycle, a node that only depends on it, and a node that is kept
C2_Witness ==
  /\ lastOrder.called
  /\ \E u, v \in Ids : /\ Reaches(u, u)
                       /\ Reaches(u, v)
                       /\ ~Reaches(v, v)
                       /\ v \notin Range(lastOrder.order)
  /\ Len(lastOrder.order) > 0

\* The moment a node of the order entered the queue: a node without incoming
\* edges at the start, at its place in the node list; any other node when the
\* last of its predecessors was popped, at the last edge from it in edge order.
NoPredecessor(v) == \A u \in Ids : ~EdgeBetween(u, v)

LastPredecessorPos(o, v) ==
  CHOOSE p \in DOMAIN o :
    /\ EdgeBetween(o[p], v)
    /\ \A q \in DOMAIN o : EdgeBetween(o[q], v) => q <= p

LastEdgeIndex(u, v) ==
  CHOOSE i \in DOMAIN edges :
    /\ edges[i].source = u /\ edges[i].target = v
    /\ \A j \in DOMAIN edges :
         (edges[j].source = u /\ edges[j].target = v) => j <= i

NodeListIndex(v) == CHOOSE i \in DOMAIN nodes : nodes[i].id = v

EnqueuedAt(o, v) ==
  IF NoPredecessor(v)
    THEN <<0, NodeListIndex(v)>>
    ELSE <<LastPredecessorPos(o, v), LastEdgeIndex(o[LastPredecessorPos(o, v)], v)>>

Before(x, y) == x[1] < y[1] \/ (x[1] = y[1] /\ x[2] < y[2])

----------------------------------------------------------------------------
(* Trigger controller: what the claims are stated with *)

Ticks == {"timeout", "interval"}

Armed(kind) == {t \in timers : t.kind = kind}

Idle ==
  /\ timers = {}
  /\ scheduleTimerId = 0
  /\ scheduleTimeoutId = 0
  /\ ~isScheduleActive

RunsOfCall(c) == {i \in DOMAIN runs : runs[i].call = c}

\* the runWorkflow() call that ran last found this trigger (the graph is not
\* changed by runWorkflow, so the trigger it saw is the one of this state)
LastCallSaw(kind) ==
  /\ event.name = "runWorkflow"
  /\ HasTrigger(nodes)
  /\ TriggerActionType(TriggerNode(nodes)) = kind

\* C4: runWorkflow() on a graph without a trigger node surfaces a validation
\* error, leaves the recorder without execution, arms no timer, starts no run
\* and leaves the controller idle.
C4_NoTriggerIsValidationError ==
  (event.name = "runWorkflow" /\ ~HasTrigger(nodes)) =>
    /\ notification = [type |-> "error", message |-> "Trigger node is required"]
    /\ execution = NoExecution
    /\ selectedEntryId = NoEntry
    /\ ~event.started
    /\ RunsOfCall(event.arg) = {}
    /\ Idle

\* a second call, on a graph that lost its trigger after the first call had
\* armed a timer or published an execution
C4_Witness ==
  /\ event.name = "runWorkflow"
  /\ ~HasTrigger(nodes)
  /\ Len(nodes) > 0
  /\ calls = 2
  /\ nextTimerId > 1

\* C5 as stated: with a ManualTrigger as the authoritative trigger, one call of
\* runWorkflow() performs exactly one full-graph run and arms no timer.
C5_ManualCallRunsOnce ==
  LastCallSaw(MANUAL_TRIGGER) =>
    /\ Cardinality(RunsOfCall(event.arg)) = 1
    /\ Idle

\* what the code does keep of C5: when the order is not empty, the call starts
\* exactly one run, which is not scheduled, and the controller is idle
ManualCallRunsOnceIfOrdered ==
  (LastCallSaw(MANUAL_TRIGGER) /\ getExecutionOrder(nodes, edges) # << >>) =>
    /\ Cardinality(RunsOfCall(event.arg)) = 1
    /\ \A i \in RunsOfCall(event.arg) : runs[i].via = "direct"
    /\ Idle

ScheduleOf(trig, now) ==
  LET ui == trig.userInput
  IN  [intervalMs |-> Times(ui.INTERVAL_BETWEEN_TRIGGER, UnitMs(ui.TRIGGER_ON)),
       firstDelayMs |-> msUntilTime(ui.TIME_TO_TRIGGER, now)]

\* C6 as stated: with a ScheduleTrigger, firstDelayMs <= 1000 starts a run at
\* once and arms the interval; otherwise only the one-shot is armed, no run
\* starts before it fires, and its firing starts exactly one run and arms the
\* interval.  The controller is Scheduled after the call.
C6_ScheduleCallArms ==
  /\ LastCallSaw(SCHEDULE_TRIGGER) =>
       LET sch == ScheduleOf(TriggerNode(nodes), event.now)
       IN  /\ isScheduleActive
           /\ IF sch.firstDelayMs <= 1000
                THEN /\ Cardinality(RunsOfCall(event.arg)) = 1
                     /\ Armed("timeout") = {}
                     /\ \E t \in timers : /\ Armed("interval") = {t}
                                          /\ t.ms = sch.intervalMs
                ELSE /\ RunsOfCall(event.arg) = {}
                     /\ Armed("interval") = {}
                     /\ \E t \in timers : /\ Armed("timeout") = {t}
                                          /\ t.ms = sch.firstDelayMs
  /\ event.name = "timeout" =>
       /\ event.started
       /\ Cardinality(RunsOfCall(event.arg)) = 1
       /\ Armed("timeout") = {}
       /\ Cardinality(Armed("interval")) = 1

\* what the code does keep of C6: when the order is not empty at the call
ScheduleCallArmsIfOrdered ==
  (LastCallSaw(SCHEDULE_TRIGGER) /\ getExecutionOrder(nodes, edges) # << >>) =>
    LET sch == ScheduleOf(TriggerNode(nodes), event.now)
    IN  /\ isScheduleActive
        /\ IF sch.firstDelayMs <= 1000
             THEN /\ Cardinality(RunsOfCall(event.arg)) = 1
                  /\ Armed("timeout") = {}
                  /\ \E t \in timers : Armed("interval") = {t} /\ t.ms = sch.intervalMs
             ELSE /\ RunsOfCall(event.arg) = {}
                  /\ Armed("interval") = {}
                  /\ \E t \in timers : Armed("timeout") = {t} /\ t.ms = sch.firstDelayMs

\* C7 as stated: a timer tick that arrives while the run started by a previous
\* tick is still executing starts no run.
C7_TickDroppedWhileTickRunExecutes ==
  (event.name \in Ticks /\ event.started) =>
    \A i \in 1..(Len(runs) - 1) : runs[i].by \in Ticks => runs[i].done

\* what the code does keep of C7: the ticks of one runWorkflow() call are
\* dropped while a run started by that same call is executing
TickDroppedWithinOneSchedule ==
  (event.name \in Ticks /\ event.started) =>
    \A i \in 1..(Len(runs) - 1) : runs[i].call = event.arg => runs[i].done

\* C8: abort() cancels the pending one-shot and the repeating timer and leaves
\* the controller idle; from then on, until the next runWorkflow(), no timer
\* is armed and no timer tick starts a run.
C8_AbortCancelsSchedule ==
  [][ /\ event'.name = "abort" => Idle'
      /\ (Idle /\ calls' = calls) =>
           /\ Idle'
           /\ ~(event'.name \in Ticks /\ event'.started) ]_vars

\* abort() has just cancelled an armed timer
C8_Witness ==
  /\ event.name = "abort"
  /\ event.arg > 0
  /\ Idle

\* the part of a run's record that its own code reads and writes
Progress(r) == [order |-> r.order, pos |-> r.pos, entries |-> r.entries,
                hasError |-> r.hasError, done |-> r.done]

NodeIdsIn(entries) == [k \in DOMAIN entries |-> entries[k].nodeId]

\* C9: abort() does not interrupt a run in flight: it changes nothing of the
\* run, the run goes on behind it, and when the run ends it has one entry for
\* every node of its order and publishes them to the recorder.
C9_AbortDoesNotInterruptRun ==
  [][ /\ event'.name = "abort" =>
           /\ DOMAIN runs' = DOMAIN runs
           /\ \A i \in DOMAIN runs : Progress(runs'[i]) = Progress(runs[i])
           /\ execution' = execution
      /\ \A i \in DOMAIN runs :
           (~runs[i].done /\ runs[i].sawAbort) =>
              /\ i \in DOMAIN runs'
              /\ \/ Progress(runs'[i]) = Progress(runs[i])
                 \/ /\ ~runs'[i].done
                    /\ runs'[i].order = runs[i].order
                    /\ runs'[i].pos > runs[i].pos
                    /\ Len(runs'[i].entries) = runs'[i].pos - 1
                 \/ /\ runs'[i].done
                    /\ execution'.id = i
                    /\ NodeIdsIn(execution'.entries) = runs[i].order ]_vars

\* a run of at least two nodes that saw an abort, ended and is in the recorder
C9_Witness ==
  \E i \in DOMAIN runs :
    /\ runs[i].done
    /\ runs[i].sawAbort
    /\ Len(runs[i].order) >= 2
    /\ execution # NoExecution
    /\ execution.id = i
    /\ NodeIdsIn(execution.entries) = runs[i].order

\* C10: at most one repeating and at most one one-shot timer are armed, every
\* armed timer is the one the controller's handle names, and an arming leaves
\* no timer armed but the new one.
C10_TimersOwnedAndSingle ==
  /\ Cardinality(Armed("interval")) <= 1
  /\ Cardinality(Armed("timeout")) <= 1
  /\ \A t \in Armed("interval") : scheduleTimerId = t.id
  /\ \A t \in Armed("timeout") : scheduleTimeoutId = t.id
  /\ \A t \in timers : t.id = nextTimerId - 1

\* the interval of a second schedule is armed, the timers of the first are gone
C10_Witness ==
  /\ calls = 2
  /\ nextTimerId >= 4
  /\ Cardinality(Armed("interval")) = 1
  /\ \E i \in DOMAIN runs : ~runs[i].done

----------------------------------------------------------------------------
(* Run assembly and dispatcher claims *)

\* C11: within one full-graph run the node actions are strictly sequential:
\* executeNode is called for a node only after the call for every node earlier
\* in the order has returned, also when the two nodes lie on independent
\* branches.
C11_DispatchIsSequential ==
  \A i \in DOMAIN runs :
    LET tr == runs[i].trace
    IN  \A k \in DOMAIN tr :
          tr[k][1] = "dispatch" =>
            \A j \in 1..(k - 1) :
              tr[j][1] = "dispatch" =>
                /\ IndexOf(runs[i].order, tr[j][2]) < IndexOf(runs[i].order, tr[k][2])
                /\ \E m \in (j + 1)..(k - 1) : tr[m] = <<"settle", tr[j][2]>>

\* a run awaits the request of an API node after the request of another API
\* node on an independent branch has returned
C11_Witness ==
  \E i \in DOMAIN runs :
    LET tr == runs[i].trace
    IN  /\ ~runs[i].done
        /\ Len(tr) >= 5
        /\ tr[Len(tr)][1] = "dispatch"
        /\ tr[Len(tr) - 1][1] = "settle"
        /\ ~EdgeBetween(tr[Len(tr) - 1][2], tr[Len(tr)][2])
        /\ ~EdgeBetween(tr[Len(tr)][2], tr[Len(tr) - 1][2])
        /\ HasNode(nodes, tr[Len(tr) - 1][2])
        /\ NodeById(nodes, tr[Len(tr) - 1][2]).actionType = API_CALL

\* the entries collected so far by every run in flight and the entries of the
\* published Execution, each with the dispatch history of its run
Collected ==
  {[entries |-> runs[i].entries, trace |-> runs[i].trace] :
     i \in {j \in DOMAIN runs : ~runs[j].done}}
  \cup (IF execution = NoExecution THEN {}
        ELSE {[entries |-> execution.entries, trace |-> runs[execution.id].trace]})

Dispatched(trace, id) == \E k \in DOMAIN trace : trace[k] = <<"dispatch", id>>

\* C12: a node with muted = true yields an entry with status skipped,
\* durationMs 0 and output {skipped: true, reason: "Node is disabled"},
\* executeNode is not called for it, and the run goes on with the following
\* nodes: the published Execution has an entry for every node of the order and
\* the entry after a skipped one carries that node's own result.
C12_MutedNodesAreSkipped ==
  /\ \A c \in Collected :
        \A k \in DOMAIN c.entries :
          LET e == c.entries[k]
          IN  /\ (e.input # NoConfig /\ e.input.muted) =>
                    /\ e.status = "skipped"
                    /\ e.durationMs = 0
                    /\ e.output = [skipped |-> TRUE, reason |-> "Node is disabled"]
                    /\ ~Dispatched(c.trace, e.nodeId)
              /\ (e.input # NoConfig /\ ~e.input.muted) =>
                    /\ e.status \in {"success", "error"}
                    /\ Dispatched(c.trace, e.nodeId)
  /\ execution # NoExecution =>
        /\ Len(execution.entries) = Len(runs[execution.id].order)
        /\ \A k \in DOMAIN execution.entries :
              execution.entries[k].nodeId = runs[execution.id].order[k]

\* Trigger -> A (muted) -> B : three entries, A's skipped, B's with the
\* response of its request
C12_Witness ==
  /\ execution # NoExecution
  /\ Len(execution.entries) = 3
  /\ execution.entries[1].input.isTrigger
  /\ execution.entries[2].input.muted
  /\ execution.entries[2].status = "skipped"
  /\ execution.entries[2].durationMs = 0
  /\ ~execution.entries[3].input.muted
  /\ execution.entries[3].status = "success"
  /\ execution.entries[3].output = Output("response", "")

\* C13: an error does not end the run: every node after a failed one is still
\* dispatched (or skipped when it is muted), and the published Execution has
\* exactly one entry per node of the run's order, in that order.
C13_ErrorsAreNotFatal ==
  execution # NoExecution =>
    LET r  == runs[execution.id]
        es == execution.entries
    IN  /\ r.done
        /\ Len(es) = Len(r.order)
        /\ \A k \in DOMAIN es : es[k].nodeId = r.order[k]
        /\ \A k \in DOMAIN es :
              es[k].status = "error" =>
                \A m \in (k + 1)..Len(es) :
                  \/ Dispatched(r.trace, es[m].nodeId)
                  \/ es[m].status = "skipped"

\* a script that throws: the node before it has a success entry, the failed
\* node an error entry, and the node after it was still executed
C13_Witness ==
  /\ execution # NoExecution
  /\ execution.status = "error"
  /\ Len(execution.entries) = 3
  /\ execution.entries[1].status = "success"
  /\ execution.entries[2].status = "error"
  /\ execution.entries[2].input.actionType = RUN_CODE
  /\ execution.entries[3].status = "success"

\* C14: the status of a published Execution is error if and only if at least
\* one of its entries has status error, and success otherwise; skipped entries
\* do not make it an error.
C14_StatusIsErrorIffSomeEntryFailed ==
  execution # NoExecution =>
    /\ execution.status \in {"error", "success"}
    /\ execution.status = "error" <=>
          \E k \in DOMAIN execution.entries : execution.entries[k].status = "error"

\* a run with a skipped entry and no failed entry is a success
C14_Witness ==
  /\ execution # NoExecution
  /\ execution.status = "success"
  /\ \E k \in DOMAIN execution.entries : execution.entries[k].status = "skipped"

\* the step publishes the Execution of a run
Publishes == execution' # NoExecution /\ execution' # execution

\* C15: when a run is published, one notification is surfaced: after a run
\* with a failed entry an error whose message is the output.error of the first
\* failed entry in run order (the generic text only when that entry has no
\* error message), after a run without a failed entry a success.
C15_NotificationIsFirstError ==
  [][Publishes =>
       LET es  == execution'.entries
           err == {k \in DOMAIN es : es[k].status = "error"}
       IN  IF err # {}
             THEN LET first == CHOOSE k \in err : \A m \in err : k <= m
                  IN  /\ notification'.type = "error"
                      /\ notification'.message =
                            IF es[first].output.val # ""
                              THEN es[first].output.val
                              ELSE "Execution failed for one or more nodes."
             ELSE notification' = [type |-> "success",
                                   message |-> "Execution completed successfully."]]_vars

\* two entries failed with different messages; the first one's is surfaced
C15_Witness ==
  /\ execution # NoExecution
  /\ \E k, m \in DOMAIN execution.entries :
        /\ k < m
        /\ execution.entries[k].status = "error"
        /\ execution.entries[m].status = "error"
        /\ execution.entries[k].output # execution.entries[m].output
        /\ notification = [type |-> "error", message |-> execution.entries[k].output.val]

\* C16: for an API Call node whose METHOD is GET, the request that executeNode
\* issues carries no body, whatever BODY holds in the node's userInput.
C16_GetRequestHasNoBody ==
  (/\ dispatched.called
   /\ dispatched.requested
   /\ Get(dispatched.config.userInput, "METHOD", "GET") = "GET")
    => ~dispatched.request.hasBody

\* the action of the dispatched node fails: its script or expression raises,
\* the request is refused or the transport fails
ActionFails(n, net) ==
  \/ n.actionType \in {RUN_CODE, COMPUTATION} /\ n.throws
  \/ n.actionType = API_CALL /\ (net = "fail" \/ ~RequestAccepted(ApiRequest(n)))

\* C17: no failure leaves executeNode: for every action kind a failing action
\* gives a result with status error and output {error: message}, and status
\* error comes only with an output that has the error field.
C17_FailuresBecomeErrorResults ==
  dispatched.called =>
    LET n   == dispatched.config
        res == dispatched.result
    IN  /\ res.status \in {"success", "error"}
        /\ ActionFails(n, dispatched.net) <=> res.status = "error"
        /\ res.status = "error" => res.output.tag = "error"
        /\ (n.actionType \in {RUN_CODE, COMPUTATION} /\ n.throws
                /\ n.thrown # Unprintable) =>
              res.output = Output("error", n.thrown)

\* C18: executeNode on a Manual Trigger or Schedule Trigger node returns
\* status success with output {trigger: <kind>}; on a node whose action kind
\* is unknown or unset it returns status success with output
\* {result: "No executable action"}.
C18_TriggersAndUnknownKindsSucceed ==
  dispatched.called =>
    LET n   == dispatched.config
        res == dispatched.result
    IN  /\ n.actionType \in {MANUAL_TRIGGER, SCHEDULE_TRIGGER} =>
              res = [output |-> Output("trigger", n.actionType), status |-> "success"]
        /\ n.actionType \notin {MANUAL_TRIGGER, SCHEDULE_TRIGGER, API_CALL,
                                 COMPUTATION, RUN_CODE} =>
              res = [output |-> Output("result", "No executable action"),
                     status |-> "success"]

\* a Schedule Trigger node was dispatched
C18_Witness ==
  /\ dispatched.called
  /\ dispatched.config.actionType = SCHEDULE_TRIGGER
  /\ dispatched.result = [output |-> Output("trigger", SCHEDULE_TRIGGER),
                           status |-> "success"]

----------------------------------------------------------------------------
(* Import claims *)

\* the file of the last import was parsed
ImportedFile == event.name = "import" /\ event.arg.format # "invalid"

\* the validation of the last import rejected the batch
Rejected == notification = [type |-> "error", message |-> InvalidFormatMessage]

\* the nodes on the canvas that the last import added
AddedByLastImport == {i \in DOMAIN nodes : nodes[i].id \div IdBase = event.now}

\* C19: import is all-or-nothing: when a node of the batch fails the
\* validation, no node and no edge is added (the graph is unchanged) and the
\* validation error is surfaced; nodes are added only when every node of the
\* batch is valid, and then all of them are.
C19_ImportIsAllOrNothing ==
  [][(event'.name = "import" /\ event'.arg.format # "invalid") =>
       LET batch == NodesToImport(event'.arg)
           bad   == \E i \in DOMAIN batch : ~isValidNodeData(batch[i])
       IN  /\ bad => /\ nodes' = nodes
                      /\ edges' = edges
                      /\ notification' = [type |-> "error", message |-> InvalidFormatMessage]
           /\ nodes' # nodes => ~bad
           /\ ~bad => /\ Len(nodes') = Len(nodes) + Len(batch)
                       /\ SubSeq(nodes', 1, Len(nodes)) = nodes]_vars

\* a batch of three nodes, the second without data.actionType: nothing of it
\* is on the canvas and the validation error is shown
C19_Witness ==
  /\ ImportedFile
  /\ Len(NodesToImport(event.arg)) = 3
  /\ isValidNodeData(NodesToImport(event.arg)[1])
  /\ Prop(Prop(NodesToImport(event.arg)[2], "data"), "actionType") = JUndefined
  /\ isValidNodeData(NodesToImport(event.arg)[3])
  /\ AddedByLastImport = {}
  /\ Rejected

\* typeof-object label, data and fields as the claim lists them
HasListedFields(node) ==
  /\ node.kind \in {"object", "array"}
  /\ Prop(node, "label").kind = "string"
  /\ Prop(node, "data").kind \in {"object", "array"}
  /\ Prop(Prop(node, "data"), "label").kind = "string"
  /\ Prop(Prop(node, "data"), "actionType").kind = "string"
  /\ Prop(Prop(node, "data"), "userInput").kind \in {"object", "array"}

\* C20 (as stated): a batch is accepted exactly when every node of it has a
\* string label and an object data with a string label, a string actionType
\* and an object userInput.
C20_ValidIffListedFields ==
  ImportedFile =>
    (~Rejected <=>
       \A i \in DOMAIN NodesToImport(event.arg) :
         HasListedFields(NodesToImport(event.arg)[i]))

\* C20 (amended): a batch is accepted exactly when every node of it has a
\* non-empty string label and an object data with a string label, a string
\* actionType and an object userInput.
C20_ValidIffListedFieldsAndLabelNotEmpty ==
  ImportedFile =>
    (~Rejected <=>
       \A i \in DOMAIN NodesToImport(event.arg) :
         /\ HasListedFields(NodesToImport(event.arg)[i])
         /\ Prop(NodesToImport(event.arg)[i], "label").text # "")

\* a node with all the listed fields and the empty string as label is rejected
C20_Witness ==
  /\ ImportedFile
  /\ Len(NodesToImport(event.arg)) = 1
  /\ HasListedFields(NodesToImport(event.arg)[1])
  /\ Prop(NodesToImport(event.arg)[1], "label") = JStr("")
  /\ Rejected
  /\ AddedByLastImport = {}

\* the old id of the i-th node of the batch, as the file gives it
FileId(batch, i) ==
  IF Prop(batch[i], "id").kind = "string"
    THEN Prop(batch[i], "id").text ELSE "temp-" \o ToString(i - 1)

\* the entry of the edge list names two nodes of the batch
EndsInBatch(batch, e) ==
  /\ Prop(e, "source").kind = "string"
  /\ Prop(e, "target").kind = "string"
  /\ \E i \in DOMAIN batch : FileId(batch, i) = Prop(e, "source").text
  /\ \E i \in DOMAIN batch : FileId(batch, i) = Prop(e, "target").text

\* the position in the batch of the node that the old id stands for (the last
\* one that carries it)
Bearer(batch, old) ==
  CHOOSE i \in DOMAIN batch :
    FileId(batch, i) = old /\ \A j \in (i + 1)..Len(batch) : FileId(batch, j) # old

\* C21: on a successful import every node of the batch gets a fresh id, the
\* ids are pairwise distinct, every edge of the file whose two ends are ids of
\* the batch is added with both ends replaced by the new ids of those nodes,
\* and every edge with an end outside the batch is left out without an error.
C21_ImportRemapsIdsAndEdges ==
  [][(/\ event'.name = "import"
      /\ event'.arg.format # "invalid"
      /\ \A i \in DOMAIN NodesToImport(event'.arg) :
            isValidNodeData(NodesToImport(event'.arg)[i])
      /\ \A k \in DOMAIN EdgesToImport(event'.arg) :
            EdgesToImport(event'.arg)[k].kind # "null") =>
       LET batch == NodesToImport(event'.arg)
           es    == EdgesToImport(event'.arg)
           base  == Len(nodes)
           kept  == SelectSeq(es, LAMBDA e : EndsInBatch(batch, e))
       IN  /\ Len(nodes') = base + Len(batch)
           /\ \A i \in DOMAIN batch :
                 /\ \A j \in DOMAIN nodes : nodes[j].id # nodes'[base + i].id
                 /\ \A j \in DOMAIN batch : i # j => nodes'[base + i].id # nodes'[base + j].id
           /\ Len(edges') = Len(edges) + Len(kept)
           /\ SubSeq(edges', 1, Len(edges)) = edges
           /\ \A k \in DOMAIN kept :
                 edges'[Len(edges) + k] =
                   MkEdge(nodes'[base + Bearer(batch, Prop(kept[k], "source").text)].id,
                          nodes'[base + Bearer(batch, Prop(kept[k], "target").text)].id)
           /\ notification'.type = "success"]_vars

\* a file with an edge between two of its nodes, a self-loop and an edge to an
\* id that the file does not have: two edges are added, no error is shown
C21_Witness ==
  /\ ImportedFile
  /\ Len(NodesToImport(event.arg)) = 2
  /\ Len(EdgesToImport(event.arg)) = 3
  /\ Cardinality(AddedByLastImport) = 2
  /\ notification = [type |-> "success", message |-> "Imported 2 node(s) and 2 edge(s)"]
  /\ \E k \in DOMAIN edges :
        /\ edges[k].source # edges[k].target
        /\ edges[k].source \div IdBase = event.now
        /\ edges[k].target \div IdBase = event.now

\* there is an edge from node a to node b in the edge list es
EdgeIn(es, a, b) == \E k \in DOMAIN es : es[k].source = a /\ es[k].target = b

\* C22: a graph exported with exportWorkflow and imported with handleImport
\* into an empty graph comes back with as many nodes, the i-th of them with the
\* label, the position and the data (actionType, isTrigger, userInput, muted,
\* and the script inside userInput) of the i-th exported node, and with an
\* edge between two imported nodes exactly where the exported graph had one.
C22_ExportImportRoundTrip ==
  [][(/\ exported.called
      /\ nodes = << >>
      /\ event'.name = "import") =>
       LET was == exported.nodes
       IN  /\ Len(nodes') = Len(was)
           /\ \A i \in DOMAIN was :
                 /\ nodes'[i].label = was[i].label
                 /\ nodes'[i].position = was[i].position
                 /\ nodes'[i].actionType = was[i].actionType
                 /\ nodes'[i].isTrigger = was[i].isTrigger
                 /\ nodes'[i].userInput = was[i].userInput
                 /\ nodes'[i].muted = was[i].muted
                 /\ nodes'[i].throws = was[i].throws
                 /\ nodes'[i].thrown = was[i].thrown
           /\ \A i, j \in DOMAIN was :
                 EdgeIn(edges', nodes'[i].id, nodes'[j].id)
                   <=> EdgeIn(exported.edges, was[i].id, was[j].id)
           /\ \A k \in DOMAIN edges' :
                 \E i, j \in DOMAIN was : edges'[k] = MkEdge(nodes'[i].id, nodes'[j].id)
           /\ Len(edges') = Len(exported.edges)
           /\ notification'.type = "success"]_vars

\* a graph with a muted node, three positions and two edges was exported,
\* deleted and imported under new ids
C22_Witness ==
  /\ exported.called
  /\ event.name = "import"
  /\ Len(nodes) = 3
  /\ Len(exported.nodes) = 3
  /\ Len(edges) = 2
  /\ \E i \in DOMAIN nodes : nodes[i].muted
  /\ \A i \in DOMAIN nodes :
        /\ nodes[i].id # exported.nodes[i].id
        /\ nodes[i].position = exported.nodes[i].position
        /\ nodes[i].position # GridPosition(i - 1)
  /\ \A i, j \in DOMAIN nodes : i # j => nodes[i].position # nodes[j].position

\* C23: for every positive integer multiplier, getScheduleIntervalMs(unit,
\* multiplier) is multiplier times the milliseconds of the unit: sec 1000,
\* min 60000, hour 3600000, day 86400000, week 604800000, month 2592000000;
\* for min and 5 it is 300000 (the result is read in whole seconds and the
\* milliseconds left over, which are none).
C23_IntervalIsMultiplierTimesUnit ==
  (/\ computed.called
   /\ computed.fn = "getScheduleIntervalMs"
   /\ computed.between >= 1) =>
    LET seconds == computed.result.s
        rest    == computed.result.ms
    IN  /\ rest = 0
        /\ computed.triggerOn = "sec"   => seconds = computed.between * 1
        /\ computed.triggerOn = "min"   => seconds = computed.between * 60
        /\ computed.triggerOn = "hour"  => seconds = computed.between * 3600
        /\ computed.triggerOn = "day"   => seconds = computed.between * 86400
        /\ computed.triggerOn = "week"  => seconds = computed.between * 604800
        /\ computed.triggerOn = "month" => seconds = computed.between * 2592000
        /\ (computed.triggerOn = "min" /\ computed.between = 5) => seconds = 300

\* getScheduleIntervalMs("min", 5) was called
C23_Witness ==
  /\ computed.called
  /\ computed.fn = "getScheduleIntervalMs"
  /\ computed.triggerOn = "min"
  /\ computed.between = 5
  /\ computed.result = Millis(300, 0)

\* milliseconds from the clock reading now to the next instant with wall-clock
\* reading time: today's if it is not before now, else tomorrow's (tomorrow
\* has no clock change)
UntilNextOccurrence(change, time, now) ==
  IF SetHours(change, time) >= now
    THEN SetHours(change, time) - now
    ELSE DayLength(change) + WallClock(time) - now

\* C24: msUntilTime("HH:MM") is the number of milliseconds from now to the
\* next occurrence of that time of day, today's if it has not passed and
\* tomorrow's otherwise, and it is at least 0 and less than 86400000.
C24_MsUntilNextOccurrence ==
  (computed.called /\ computed.fn = "msUntilTime") =>
    /\ computed.result = UntilNextOccurrence(computed.change, computed.time, computed.now)
    /\ computed.result >= 0
    /\ computed.result < 86400000

\* on a day without a clock change msUntilTime is the time to the next
\* occurrence and lies in 0 .. 86399999
MsUntilNextOccurrenceOnPlainDay ==
  (computed.called /\ computed.fn = "msUntilTime" /\ computed.change = 0) =>
    /\ computed.result = UntilNextOccurrence(0, computed.time, computed.now)
    /\ computed.result >= 0
    /\ computed.result < 86400000

\* the trigger nodes of the canvas, by their position in the node list
TriggerPositions == {i \in DOMAIN nodes : nodes[i].isTrigger}

\* C25: when the graph has several trigger nodes, runWorkflow takes the mode
\* and the schedule parameters from the first of them in the node list only:
\* a manual first trigger gives one direct run and no timer, a schedule first
\* trigger arms timers with its own interval and time of day, whatever the
\* other triggers are.
C25_FirstTriggerDecides ==
  (event.name = "runWorkflow" /\ Cardinality(TriggerPositions) >= 2) =>
    LET first   == nodes[CHOOSE i \in TriggerPositions : \A j \in TriggerPositions : i <= j]
        ui      == first.userInput
        ordered == getExecutionOrder(nodes, edges) # << >>
    IN  /\ (timers # {} \/ isScheduleActive) => first.actionType = SCHEDULE_TRIGGER
        /\ \A t \in timers :
              /\ t.intervalMs = Times(ui.INTERVAL_BETWEEN_TRIGGER, UnitMs(ui.TRIGGER_ON))
              /\ t.kind = "interval" => t.ms = t.intervalMs
              /\ t.kind = "timeout" => t.ms = msUntilTime(ui.TIME_TO_TRIGGER, event.now)
        /\ (ordered /\ first.actionType = SCHEDULE_TRIGGER) =>
              isScheduleActive /\ Cardinality(timers) = 1
        /\ (ordered /\ first.actionType = MANUAL_TRIGGER) =>
              /\ Idle
              /\ Cardinality(RunsOfCall(event.arg)) = 1
              /\ \A i \in RunsOfCall(event.arg) : runs[i].via = "direct"

\* runWorkflow on a schedule trigger (every 2 hours) followed by another
\* schedule trigger (every 5 minutes) and a manual trigger
C25_Witness ==
  /\ event.name = "runWorkflow"
  /\ Cardinality(TriggerPositions) = 3
  /\ nodes[1].userInput.TRIGGER_ON = "hour"
  /\ nodes[2].userInput.TRIGGER_ON = "min"
  /\ \E t \in timers : t.intervalMs = Millis(7200, 0)

\* the single execution that the step ends: the one just started when it did
\* not wait for a request, or the one whose request was answered
EndsSingle(k) ==
  /\ k \in DOMAIN singles'
  /\ singles'[k].done
  /\ k \in DOMAIN singles => ~singles[k].done

\* the recorder holds the Execution of the single execution s: one entry, for
\* the node of s, with the status that executeNode returned, which is the
\* status of the Execution too
SinglePublished(exec, s) ==
  /\ exec # NoExecution
  /\ Len(exec.entries) = 1
  /\ exec.entries[1].nodeId = s.nodeId
  /\ exec.entries[1].status = s.result.status
  /\ exec.entries[1].status \in {"success", "error"}
  /\ exec.status = exec.entries[1].status

\* C26: executeSingleNode(nodeId) for a node of the canvas publishes an
\* Execution with exactly one entry, whose nodeId is nodeId and whose status
\* is the result of the dispatcher, and the status of the Execution is the
\* status of the entry.
C26_SingleExecutionIsPublished ==
  [][\A k \in DOMAIN singles' : EndsSingle(k) => SinglePublished(execution', singles'[k])]_vars

\* what the code keeps of C26: whenever executeNode returns a result
SinglePublishedWhenDispatcherReturns ==
  [][\A k \in DOMAIN singles' :
       (EndsSingle(k) /\ singles'[k].result.status # "uncaught") =>
          SinglePublished(execution', singles'[k])]_vars

\* C27: setExecution replaces the execution and selects its first entry, or
\* none when it has no entries; clearExecution leaves no execution and no
\* selection; setSelectedEntryId(id) makes the entry with that id the
\* inspected one and leaves the execution as it is.
C27_RecorderOperations ==
  [][/\ event'.name = "setExecution" =>
          /\ execution' = event'.arg
          /\ IF Len(event'.arg.entries) = 0
               THEN /\ selectedEntryId' = NoEntry
                    /\ selectedEntry(execution', selectedEntryId') = NoEntry
               ELSE /\ selectedEntryId' = event'.arg.entries[1].id
                    /\ selectedEntry(execution', selectedEntryId') = event'.arg.entries[1]
     /\ event'.name = "clearExecution" =>
          /\ execution' = NoExecution
          /\ selectedEntryId' = NoEntry
          /\ selectedEntry(execution', selectedEntryId') = NoEntry
     /\ event'.name = "setSelectedEntryId" =>
          /\ execution' = execution
          /\ selectedEntryId' = event'.arg
          /\ \E k \in DOMAIN execution.entries :
                /\ execution.entries[k].id = event'.arg
                /\ selectedEntry(execution', selectedEntryId') = execution.entries[k]]_vars

\* setExecution was called with an Execution of three entries, and its first
\* entry is the selected one
C27_Witness ==
  /\ event.name = "setExecution"
  /\ execution # NoExecution
  /\ Len(execution.entries) = 3
  /\ selectedEntryId = execution.entries[1].id
  /\ execution.id = 2

\* the ids of the runs and single executions that the step starts
StartedByStep ==
       {runs'[i].id : i \in (DOMAIN runs') \ (DOMAIN runs)}
  \cup {singles'[k].id : k \in (DOMAIN singles') \ (DOMAIN singles)}

\* the entries that the recorder gives access to: those of the execution, and
\* the inspected one
Reachable(exec, selected) ==
       (IF exec = NoExecution THEN {} ELSE Range(exec.entries))
  \cup (IF selectedEntry(exec, selected) = NoEntry
         THEN {} ELSE {selectedEntry(exec, selected)})

\* C28: the recorder holds at most one Execution.  A step that starts a run
\* (runWorkflow, a scheduled tick) or a single-node execution discards the
\* Execution held before: afterwards the recorder holds none, or the one of
\* the activation just started.  After an Execution is published, every entry
\* reachable through the recorder is an entry of that Execution and of the
\* activation that published it.
C28_OneExecutionRetained ==
  [][/\ StartedByStep # {} =>
          /\ execution' = NoExecution \/ execution'.id \in StartedByStep
          /\ execution' # NoExecution =>
                (execution = NoExecution \/ execution.id # execution'.id)
     /\ Publishes =>
          /\ \A e \in Reachable(execution', selectedEntryId') :
                /\ e \in Range(execution'.entries)
                /\ e.id[2] = execution'.id
          /\ execution # NoExecution =>
                \A e \in Range(execution.entries) :
                  e \notin Reachable(execution', selectedEntryId')
     /\ execution' = NoExecution => Reachable(execution', selectedEntryId') = {}]_vars

\* the Execution of a run was on display, a single-node execution was started
\* and its request answered: the recorder holds the single execution's entry
C28_Witness ==
  /\ event.name = "resumeSingle"
  /\ \E i \in DOMAIN runs : runs[i].done
  /\ execution # NoExecution
  /\ execution.id = SingleId(1)
  /\ Len(execution.entries) = 1

\* the edges of the edge list without those that name a node that is not in
\* the node list
KnownEdges ==
  SelectSeq(edges, LAMBDA e : \E i \in DOMAIN nodes : nodes[i].id = e.source
                              /\ \E j \in DOMAIN nodes : nodes[j].id = e.target)

\* C29: edges whose source or target is not the id of a node are dropped by
\* getExecutionOrder: the order is the order of the graph without these edges,
\* and no node is left out of it because of them - a node that no edge from a
\* node leads to is in the order, and without edges between nodes the order
\* is the node list.
C29_DanglingEdgesAreDropped ==
  lastOrder.called =>
    LET known == KnownEdges
    IN  /\ known # edges => lastOrder.order = getExecutionOrder(nodes, known)
        /\ \A v \in Ids :
              (\A k \in DOMAIN known : known[k].target # v) =>
                 Occurrences(lastOrder.order, v) = 1
        /\ known = << >> => lastOrder.order = [i \in DOMAIN nodes |-> nodes[i].id]

\* an edge from an id without a node into a node, an edge from a node to an
\* id without a node; both nodes are in the order
C29_Witness ==
  /\ lastOrder.called
  /\ Len(nodes) = 2
  /\ Len(edges) = 2
  /\ KnownEdges = << >>
  /\ edges[1].source \notin Ids /\ edges[1].target \in Ids
  /\ edges[2].source \in Ids /\ edges[2].target \notin Ids
  /\ Len(lastOrder.order) = 2

\* C30: in the order that getExecutionOrder returns the trigger nodes come
\* first: every node with isTrigger = true is before every node without.
C30_TriggersFirst ==
  lastOrder.called =>
    \A i, j \in DOMAIN lastOrder.order :
      (/\ NodeById(nodes, lastOrder.order[i]).isTrigger
       /\ ~NodeById(nodes, lastOrder.order[j]).isTrigger) => i < j

\* what the code keeps of C30: a trigger node is before every node that is
\* reachable from it along the edges
TriggerBeforeItsDescendants ==
  lastOrder.called =>
    \A i, j \in DOMAIN lastOrder.order :
      (/\ NodeById(nodes, lastOrder.order[i]).isTrigger
       /\ Reaches(lastOrder.order[i], lastOrder.order[j])) => i < j

----------------------------------------------------------------------------
(* Delete-all and the schedule *)

\* the step is a confirmed delete-all
DeleteAllStep == nodes # << >> /\ event'.name = "deleteAll"

\* the step is a tick of a timer
TickStep == event' # event /\ event'.name \in Ticks

\* C31: confirming delete-all, in any state, leaves no one-shot and no
\* repeating timer armed and the armed flag false, leaves the recorder without
\* an execution and the canvas without nodes; from then on no timer is armed
\* again and no tick happens, so no scheduled tick starts a run afterwards.
C31_DeleteAllCancelsSchedule ==
  [][ /\ DeleteAllStep =>
           /\ Idle'
           /\ execution' = NoExecution
           /\ nodes' = << >> /\ edges' = << >>
      /\ (nodes = << >> /\ Idle) =>
           /\ Idle'
           /\ ~TickStep
           /\ \A i \in (DOMAIN runs') \ (DOMAIN runs) : runs'[i].via # "scheduled"
    ]_vars

\* delete-all was confirmed while a repeating timer was armed, a scheduled
\* run was in flight and the recorder held an execution
C31_Witness ==
  /\ event.name = "deleteAll"
  /\ Idle
  /\ nodes = << >>
  /\ \E i \in DOMAIN runs : runs[i].via = "scheduled" /\ ~runs[i].done
  /\ \E i \in DOMAIN runs : runs[i].via = "scheduled" /\ runs[i].done
  /\ \E c \in DOMAIN isExecuting : isExecuting[c]

----------------------------------------------------------------------------
(* Overlap of full-graph runs *)

\* the full-graph runs that have started and not ended
InProgress == {i \in DOMAIN runs : ~runs[i].done}

\* C32: in every reachable state at most one full-graph run is in progress,
\* so no two full-graph runs execute node actions concurrently.
C32_AtMostOneRunInProgress == Cardinality(InProgress) <= 1

----------------------------------------------------------------------------
(* Scheduled runs under fairness: every pending request is answered, every  *)
(* armed timer fires                                                        *)

LiveGraphs ==
  { Graph(<<ScheduleTrigger(1), ApiCall(2, FALSE)>>, <<MkEdge(1, 2)>>),
    Graph(<<ScheduleTrigger(1), Computation(2)>>, <<MkEdge(1, 2)>>),
    Graph(<<ScheduleTrigger(1), ApiCall(2, FALSE), Throwing(RunCode(3), "Error: boom")>>,
          <<MkEdge(1, 2), MkEdge(2, 3)>>),
    Graph(<<ScheduleTrigger(1), ApiCall(2, FALSE), Throwing(RunCode(3), Unprintable)>>,
          <<MkEdge(1, 2), MkEdge(2, 3)>>),
    Graph(<<ScheduleTrigger(1), Throwing(RunCode(2), Unprintable)>>, <<MkEdge(1, 2)>>) }

InitLive ==
  /\ \E g \in LiveGraphs : nodes = g.nodes /\ edges = g.edges
  /\ InitEngine

NextLive ==
  \/ \E now \in NowSet : RunWorkflow(now)
  \/ AbortExecution
  \/ \E t \in timers : FireTimeout(t)
  \/ \E t \in timers : FireInterval(t)
  \/ \E i \in DOMAIN runs, net \in {"ok", "fail"} : Resume(i, net)

\* the request that run i awaits is answered or fails: the step Resume(i, net),
\* told by the event it leaves
Answered(i) ==
  /\ i \in DOMAIN runs /\ ~runs[i].done
  /\ event' = [name |-> "resume", arg |-> i, now |-> 0, started |-> FALSE]

\* an armed timer fires: the step FireTimeout(t) or FireInterval(t), told by
\* the event it leaves
Fired ==
  \E t \in timers :
    /\ Len(runs) < MaxRuns \/ (t.kind = "interval" /\ isExecuting[t.closure])
    /\ event' = [name |-> t.kind, arg |-> t.closure, now |-> 0,
                 started |-> /\ ~isExecuting[t.closure]
                             /\ getExecutionOrder(nodes, edges) # << >>]

\* every node action eventually completes (the response or the failure of a
\* pending request arrives), and an armed timer fires
SpecLive ==
  /\ InitLive /\ [][NextLive]_vars
  /\ \A i \in 1..MaxRuns : WF_event(Answered(i))
  /\ WF_event(Fired)

\* run i was started by a tick or by the arming call
ScheduledRun(i) == i \in DOMAIN runs /\ runs[i].via = "scheduled"

\* executeWorkflowNow of run i has ended
Ended(i) == i \in DOMAIN runs /\ runs[i].done

\* the guard of the schedule made by runWorkflow call c is taken
GuardTaken(c) == c \in DOMAIN isExecuting /\ isExecuting[c]

\* the guard of a schedule that is armed is taken
GuardHeld(c) == GuardTaken(c) /\ \E t \in timers : t.closure = c

\* a tick of the repeating timer of a schedule whose guard is free
FreeTick == \E t \in timers : t.kind = "interval" /\ ~isExecuting[t.closure]
                               /\ event' # event /\ event' = [event' EXCEPT !.name = "interval", !.arg = t.closure]

\* C33: every scheduled run that starts ends, and while its schedule stays
\* armed the guard it took is released; a tick that arrives on a free guard
\* starts a new run, so ticks are not dropped forever.
C33_ScheduledRunsEndAndReleaseGuard ==
  /\ \A i \in 1..MaxRuns :
       ScheduledRun(i) ~> Ended(i)
  /\ \A c \in 1..MaxCalls : GuardHeld(c) ~> ~GuardHeld(c)
  /\ [][FreeTick => Len(runs') = Len(runs) + 1]_vars

\* the graph has no script that raises a value without a string conversion
NoUnprintableThrow == \A k \in DOMAIN nodes : nodes[k].thrown # Unprintable

\* C33, for the graphs whose actions all return a result to the run
GuardReleasedWhenDispatcherReturns ==
  /\ \A i \in 1..MaxRuns :
       ScheduledRun(i) ~> Ended(i)
  /\ \A c \in 1..MaxCalls : (GuardHeld(c) /\ NoUnprintableThrow) ~> ~GuardHeld(c)
  /\ [][FreeTick => Len(runs') = Len(runs) + 1]_vars

----------------------------------------------------------------------------
(* The armed flag and the timers *)

\* C34: between handlers, isScheduleActive is true if and only if a one-shot
\* or a repeating timer is armed, in the event loop and by the controller's
\* handles alike; the Abort button (shown when the flag is true) is offered
\* exactly when there is a timer to cancel.
C34_ArmedFlagIffTimerArmed ==
  /\ isScheduleActive <=> (Armed("timeout") # {} \/ Armed("interval") # {})
  /\ isScheduleActive <=> (scheduleTimeoutId # 0 \/ scheduleTimerId # 0)

\* the one-shot has fired and armed the repeating timer: the flag is still true
C34_Witness ==
  /\ event.name = "timeout"
  /\ isScheduleActive
  /\ Armed("timeout") = {}
  /\ Armed("interval") # {}

----------------------------------------------------------------------------
(* The selectedEntry accessor *)

\* C35: after any sequence of setExecution, clearExecution and
\* setSelectedEntryId with any id, the selectedEntry accessor gives null or an
\* entry of the current execution, and null whenever there is no execution.
C35_SelectedEntryIsOfExecution ==
  LET entry == selectedEntry(execution, selectedEntryId)
  IN  /\ entry = NoEntry
         \/ (execution # NoExecution /\ entry \in Range(execution.entries))
      /\ execution = NoExecution => entry = NoEntry

\* the selected id is the id of an entry of an earlier execution, which the
\* current execution does not list
C35_Witness ==
  /\ event.name = "selectAnyEntryId"
  /\ selectedEntryId # NoEntry
  /\ execution # NoExecution
  /\ Len(execution.entries) > 0
  /\ \A k \in DOMAIN execution.entries : execution.entries[k].id # selectedEntryId
  /\ selectedEntry(execution, selectedEntryId) = NoEntry

----------------------------------------------------------------------------
(* The trigger in the executions of full-graph runs *)

\* the execution was published by a full-graph run (those of single-node
\* executions have the ids SingleId(k))
OfFullGraphRun(exec) == exec # NoExecution /\ exec.id >= 1

\* the entry is the entry of a trigger node
TriggerEntry(entry) == entry.input # NoConfig /\ entry.input.isTrigger

\* C36: every Execution published by a full-graph run, manual or scheduled,
\* whatever was edited in the graph between arming and the tick, has an entry
\* for a node with isTrigger = true.
C36_PublishedRunHasTriggerEntry ==
  OfFullGraphRun(execution) =>
    \E k \in DOMAIN execution.entries : TriggerEntry(execution.entries[k])

----------------------------------------------------------------------------
(* The request of an API call and the node's executableCode *)

\* the two fetch expressions ask for the same method, headers and body
SameRequest(a, b) ==
  /\ a.method = b.method
  /\ a.headers = b.headers
  /\ a.hasBody = b.hasBody
  /\ a.hasBody => a.body = b.body

\* C37: for every userInput of an API call, the request that executeNode
\* issues has the method, the headers and the body (present or absent, and
\* its content) of the fetch expression that generateExecutableCode produces
\* for the node's executableCode.
C37_RequestIsExecutableCode ==
  (dispatched.called /\ dispatched.requested) =>
    SameRequest(dispatched.request,
                generateExecutableCode(dispatched.config.actionType,
                                       dispatched.config.userInput))

\* C37, for every method but GET
RequestIsExecutableCodeUnlessGet ==
  (dispatched.called /\ dispatched.requested /\ dispatched.request.method # "GET") =>
    SameRequest(dispatched.request,
                generateExecutableCode(dispatched.config.actionType,
                                       dispatched.config.userInput))

----------------------------------------------------------------------------
(* Single-node execution and the trigger controller *)

\* the step is a step of onNodeExecute: its start, or its end after the await
SingleStep == singles' # singles

\* C38: executing a single node leaves the trigger controller as it is: no
\* timer is armed or cancelled, the handles and the armed flag keep their
\* values, so a schedule armed before is armed after, with the same interval.
C38_SingleExecutionKeepsSchedule ==
  [][SingleStep =>
       /\ UNCHANGED << scheduleTimerId, scheduleTimeoutId, isScheduleActive >>
       /\ UNCHANGED << timers, nextTimerId, isExecuting >>]_vars

\* a single node was executed to its end while the repeating timer was armed
C38_Witness ==
  /\ event.name = "resumeSingle"
  /\ isScheduleActive
  /\ \E t \in Armed("interval") : t.id = scheduleTimerId
  /\ \E k \in DOMAIN singles : singles[k].done /\ singles[k].published

----------------------------------------------------------------------------
(* The validation error of runWorkflow *)

TriggerRequired == [type |-> "error", message |-> "Trigger node is required"]

\* C39: runWorkflow reports 'Trigger node is required' only when the graph
\* has no node with isTrigger = true; when a trigger node exists, the call
\* starts a full-graph run or arms a schedule.
C39_TriggerRequiredOnlyWithoutTrigger ==
  event.name = "runWorkflow" =>
    /\ notification = TriggerRequired => ~HasTrigger(nodes)
    /\ HasTrigger(nodes) => (event.started \/ isScheduleActive)

\* C39, for the graphs whose execution order is not empty
TriggerRequiredOnlyWithoutTriggerIfOrdered ==
  (event.name = "runWorkflow" /\ getExecutionOrder(nodes, edges) # << >>) =>
    /\ notification = TriggerRequired => ~HasTrigger(nodes)
    /\ HasTrigger(nodes) => (event.started \/ isScheduleActive)

----------------------------------------------------------------------------
(* The execution held by the recorder is the work of one activation *)

\* the entries are the complete entry list of run r: one entry for every node
\* of its order, in that order, each made by that run
EntriesOfRun(entries, r) ==
  /\ Len(entries) = Len(r.order)
  /\ \A k \in DOMAIN entries :
       /\ entries[k].nodeId = r.order[k]
       /\ entries[k].id = <<r.order[k], r.id>>

\* the entries are the single entry of the single-node execution s
EntryOfSingle(entries, s) ==
  /\ Len(entries) = 1
  /\ entries[1].nodeId = s.nodeId
  /\ entries[1].id = <<s.nodeId, s.id>>

\* C40: whatever runs and single-node executions overlap, the Execution held
\* by the recorder is the product of one activation: its entries are the
\* complete entry list of one finished run, or the one entry of one finished
\* single-node execution; never a partial list, never entries of two runs.
C40_ExecutionIsOfOneActivation ==
  execution # NoExecution =>
    \/ \E i \in DOMAIN runs :
         /\ runs[i].id = execution.id
         /\ runs[i].done /\ ~runs[i].rejected
         /\ EntriesOfRun(execution.entries, runs[i])
    \/ \E k \in DOMAIN singles :
         /\ singles[k].id = execution.id
         /\ singles[k].done /\ singles[k].published
         /\ EntryOfSingle(execution.entries, singles[k])

\* a run that was overtaken by a single-node execution published after it:
\* the recorder holds the run's two entries
C40_Witness ==
  /\ event.name = "resume"
  /\ \E k \in DOMAIN singles : singles[k].published
  /\ execution # NoExecution
  /\ execution.id >= 1
  /\ Len(execution.entries) = 2

====
